---- MODULE Spec2Model ----
(***************************************************************************)
(* Release-revision integrity subsystem of ATR: the three-way merge of     *)
(* atr/merge.py and the manifest store of atr/attestable.py.               *)
(*                                                                         *)
(* A relative path "a/b" is the sequence of its components; a component is *)
(* the rank of a one-letter name, so that Python's order on the joined     *)
(* strings ('/' sorts before every letter) is the lexicographic order on   *)
(* the sequences, a proper prefix first.                                   *)
(***************************************************************************)
EXTENDS Integers, Sequences, FiniteSets, TLC

VARIABLES
    base_inodes,   \* merge argument: path -> inode of the base revision
    base_hashes,   \* merge argument: path -> hash recorded for the base revision
    prior_dir,     \* the prior revision's directory: path -> file
    paths_file,    \* the prior revision's <revision>.paths.json as load_paths reads it
    temp_files,    \* regular files of temp_dir: path -> file
    temp_dirs,     \* directories of temp_dir
    n_inodes,      \* merge argument: path -> inode of the new revision
    n_hashes,      \* merge argument, modified in place
    n_sizes,       \* merge argument, modified in place
    prior_hashes,  \* merge local: the lazily loaded projection
    loads,         \* number of attestable.load_paths calls made by this merge
    todo,          \* the paths the loop of merge has still to visit, in order
    pc,            \* "loop", "done" (merge returned) or "failed" (merge raised)
    start,         \* temp_dir, n_hashes and n_sizes as they were at the call
    manifest_file,   \* <revision>.json of the revision being written
    projection_file, \* <revision>.paths.json of the revision being written
    checks_file,     \* <revision>.checks.json of that revision
    w_pc,          \* write_files_data: the statement it has reached
    t_pc,          \* write_checks_data call of each check task: its position
    t_checks,      \* write_checks_data: the argument checks of each call
    t_old,         \* atomic_modify_file: the content each call has read
    t_tmp,         \* atomic_write_file: the temporary file of each call
    seen,          \* what a concurrent reader found when it last opened a file
    manifests,     \* the <revision>.json files of one (project, version), by revision
    call,          \* the latest write_files_data call: its arguments and its result
    r_files,       \* the three files of a revision as a reader finds them
    r_result,      \* the outcome of the latest load, load_paths or load_checks call
    first,         \* the outcome of the first of two merge runs on the same inputs
    archive,       \* the archive an ArchiveContext wraps, with its max_members
    iter,          \* the generator of ArchiveContext.__iter__: position and output
    classified,    \* a classify call: its arguments and the FileType returned
    creation,      \* a create_revision call: its position, directories and files
    attestable_dir,  \* the manifest and the projection file of each revision on disk
    writer,        \* the write_files_data calls on attestable_dir: position, result
    migration,     \* a migrate_to_paths_files call: its position, count and returns
    heap,          \* the HashEntry objects of an attribution call, by identity
    walk,          \* a paths_to_hashes_and_sizes call: its position and its maps
    check          \* a check function called on an archive: its results, its end

mvars == <<base_inodes, base_hashes, prior_dir, paths_file, temp_files, temp_dirs,
           n_inodes, n_hashes, n_sizes, prior_hashes, loads, todo, pc, start>>

svars == <<manifest_file, projection_file, checks_file, w_pc, t_pc, t_checks, t_old,
           t_tmp, seen>>

avars == <<manifests, call, r_files, r_result>>

xvars == <<first, archive, iter, classified, creation>>

yvars == <<attestable_dir, writer, migration, heap, walk, check>>

vars == <<mvars, svars, avars, xvars, yvars>>

----------------------------------------------------------------------------
(* Bounds *)

NumNames == 2          \* one-letter file names "a", "b"
MaxPaths == 2          \* paths that occur in base, prior or new in one merge
NumData == 2           \* distinct file contents
NumTasks == 2          \* check tasks calling write_checks_data concurrently
MaxId == 2             \* check result ids 1..MaxId
NumUploaders == 2      \* uploader ids
MaxWrites == 2         \* write_files_data calls with free arguments in one run
MaxRev == 3            \* revisions of one (project, version) created in one run
MaxMembers == 3        \* members of an archive
NumRevs == 2           \* revisions in the directory of one (project, version)
MaxRuns == 2           \* migrate_to_paths_files calls in one run

Names == 1..NumNames
Data == 1..NumData

\* Files at the root, and files in the directory named by the first name.
Paths == {<<x>> : x \in Names} \cup {<<1, x>> : x \in Names \ {NumNames}}

----------------------------------------------------------------------------
(* Values *)

\* Python's None for an optional inode or hash (inodes and hashes are >= 1).
None == 0

\* An optional mapping: the dict[str, str] | None of load_paths.
NoMap == [some |-> FALSE, map |-> <<>>]
SomeMap(m) == [some |-> TRUE, map |-> m]

\* dict.get(key): None when the key is missing.
Get(d, k) == IF k \in DOMAIN d THEN d[k] ELSE None

\* dict.pop(key, None) and d[key] = value.
Pop(d, k) == [x \in DOMAIN d \ {k} |-> d[x]]
Put(d, k, v) == [x \in DOMAIN d \cup {k} |-> IF x = k THEN v ELSE d[x]]

\* The content hash of a file ("blake3:<hex>"): injective in the content.
HashOf(d) == 100 + d
Hashes == {HashOf(d) : d \in Data}

\* st_size of a file with content d (content 1 is the empty file).
SizeOf(d) == d \div 2

\* hashes.compute_file_hash: the hash of the bytes the file holds.
compute_file_hash(file) == HashOf(file.data)

\* util.paths_to_inodes: the regular files under a directory with their inodes.
paths_to_inodes(dir) == [p \in DOMAIN dir |-> dir[p].ino]

\* attestable.load_paths: the projection's paths, None if missing or invalid.
load_paths == paths_file

----------------------------------------------------------------------------
(* Path order and prefixes *)

RECURSIVE PathLess(_, _)
PathLess(p, q) ==
    IF p = <<>> THEN q # <<>>
    ELSE IF q = <<>> THEN FALSE
    ELSE IF Head(p) # Head(q) THEN Head(p) < Head(q)
    ELSE PathLess(Tail(p), Tail(q))

RECURSIVE SortedPaths(_)
SortedPaths(S) ==
    IF S = {} THEN <<>>
    ELSE LET m == CHOOSE p \in S : \A q \in S \ {p} : PathLess(p, q)
         IN <<m>> \o SortedPaths(S \ {m})

\* "/".join(parts[:i]) for i in range(1, len(parts))
Prefixes(p) == {SubSeq(p, 1, i) : i \in 1..(Len(p) - 1)}

\* The names that hold a backslash: the last name stands for one such as "b\c"
\* (a backslash sorts after '/', and split("/") does not cut at it).
BackslashNames == {NumNames}

\* '"\\" in path_key', the test of paths_to_hashes_and_sizes.
HasBackslash(p) == \E i \in DOMAIN p : p[i] \in BackslashNames

\* merge, lines 51-56: the implicit directories of the new tree's files.
n_dirs == UNION {Prefixes(p) : p \in DOMAIN n_inodes}

prior_inodes == paths_to_inodes(prior_dir)

all_paths == DOMAIN base_inodes \cup DOMAIN prior_inodes \cup DOMAIN n_inodes

----------------------------------------------------------------------------
(* The merge engine, atr/merge.py.  An operation takes and returns the     *)
(* record s of what merge mutates: tf and td (temp_dir's files and         *)
(* directories), nh and ns (n_hashes, n_sizes), ph (prior_hashes), loads,  *)
(* and ok, FALSE once a call has raised; fault names the operating-system  *)
(* call that fails with an OSError in this iteration, "none" if none does. *)

OsCalls == {"link", "remove", "stat"}

Raise(s) == [s EXCEPT !.ok = FALSE]

\* "if prior_hashes is None: prior_hashes = await attestable.load_paths(...)"
LoadPriorHashes(s) ==
    IF s.ph.some THEN s ELSE [s EXCEPT !.ph = load_paths, !.loads = @ + 1]

\* The hash of prior's file: the projection's entry, else computed from the file.
PriorHash(ph, path, file) ==
    IF ph.some /\ path \in DOMAIN ph.map THEN ph.map[path] ELSE compute_file_hash(file)

\* os.makedirs(target.parent, exist_ok=True): raises when a component is a file.
_makedirs_with_permissions(s, path) ==
    IF \E d \in Prefixes(path) : d \in DOMAIN s.tf
    THEN Raise(s)
    ELSE [s EXCEPT !.td = @ \cup Prefixes(path)]

\* os.link(prior_dir / path, temp_dir / path): raises when the target exists.
Link(s, path) ==
    IF path \in DOMAIN s.tf \/ path \in s.td \/ path \notin DOMAIN prior_dir
       \/ ~(Prefixes(path) \subseteq s.td) \/ s.fault = "link"
    THEN Raise(s)
    ELSE [s EXCEPT !.tf = Put(@, path, prior_dir[path])]

\* os.remove(temp_dir / path): raises when there is no such regular file.
Remove(s, path) ==
    IF path \notin DOMAIN s.tf \/ s.fault = "remove"
    THEN Raise(s)
    ELSE [s EXCEPT !.tf = Pop(@, path)]

\* Lines 129-137 and 247-256: refresh n_hashes[path] and n_sizes[path] from the
\* file now at temp_dir / path; os.stat comes after the hash is stored.
RefreshFromPrior(s, path) ==
    LET l == LoadPriorHashes(s)
        h == [l EXCEPT !.nh = Put(@, path, PriorHash(l.ph, path, l.tf[path]))]
    IN IF h.fault = "stat"
       THEN Raise(h)
       ELSE [h EXCEPT !.ns = Put(@, path, SizeOf(h.tf[path].data))]

\* _add_from_prior hashing the linked file without consulting the projection.
_add_from_prior_rehash(s, path) ==
    LET d == _makedirs_with_permissions(s, path)
        k == IF d.ok THEN Link(d, path) ELSE d
        l == LoadPriorHashes(k)
        h == [l EXCEPT !.nh = Put(@, path, compute_file_hash(l.tf[path]))]
    IN IF k.ok THEN [h EXCEPT !.ns = Put(@, path, SizeOf(h.tf[path].data))] ELSE k

_add_from_prior(s, path) ==
    LET d == _makedirs_with_permissions(s, path)
        k == IF d.ok THEN Link(d, path) ELSE d
    IN IF k.ok THEN RefreshFromPrior(k, path) ELSE k

\* _content_matches taking any new file for base's.
_content_matches_always(b_ino, n_ino, b_hash, n_hash) == TRUE

\* _content_matches comparing inodes only.
_content_matches_inode_only(b_ino, n_ino, b_hash, n_hash) == b_ino = n_ino

_content_matches(b_ino, n_ino, b_hash, n_hash) ==
    IF b_ino = n_ino THEN TRUE ELSE b_hash = n_hash

\* _has_type_conflict without the test for a file above the path.
_has_type_conflict_dirs_only(path) == path \in n_dirs

_has_type_conflict(path) ==
    IF path \in n_dirs THEN TRUE
    ELSE \E d \in Prefixes(path) : d \in DOMAIN n_inodes

\* _replace_with_prior leaving n_hashes and n_sizes as they are.
_replace_with_prior_stale(s, path) ==
    LET r == Remove(s, path)
        k == IF r.ok THEN Link(r, path) ELSE r
    IN IF k.ok THEN LoadPriorHashes(k) ELSE k

_replace_with_prior(s, path) ==
    LET r == Remove(s, path)
        k == IF r.ok THEN Link(r, path) ELSE r
    IN IF k.ok THEN RefreshFromPrior(k, path) ELSE k

\* _merge_all_present without the inode test of case 11.
_merge_all_present_hash_only(s, path, b_ino, p_ino, n_ino) ==
    IF p_ino = n_ino THEN s
    ELSE IF b_ino = p_ino THEN s
    ELSE IF path \notin DOMAIN base_hashes \/ path \notin DOMAIN s.nh
         THEN Raise(s)
    ELSE IF base_hashes[path] = s.nh[path]
         THEN LET l == LoadPriorHashes(s)
                  p_hash == PriorHash(l.ph, path, prior_dir[path])
              IN IF p_hash # base_hashes[path] THEN _replace_with_prior(l, path) ELSE l
    ELSE s

\* _merge_all_present replacing whenever base's hash equals new's hash.
_merge_all_present_no_prior_hash(s, path, b_ino, p_ino, n_ino) ==
    IF p_ino = n_ino THEN s
    ELSE IF b_ino = p_ino THEN s
    ELSE IF b_ino = n_ino THEN _replace_with_prior(s, path)
    ELSE IF path \notin DOMAIN base_hashes \/ path \notin DOMAIN s.nh
         THEN Raise(s)
    ELSE IF base_hashes[path] = s.nh[path]
         THEN _replace_with_prior(s, path)
    ELSE s

_merge_all_present(s, path, b_ino, p_ino, n_ino) ==
    IF p_ino = n_ino THEN s
    ELSE IF b_ino = p_ino THEN s
    ELSE IF b_ino = n_ino THEN _replace_with_prior(s, path)
    ELSE IF path \notin DOMAIN base_hashes \/ path \notin DOMAIN s.nh
         THEN Raise(s)   \* KeyError
    ELSE LET b_hash == base_hashes[path]
             n_hash == s.nh[path]
         IN IF b_hash = n_hash
            THEN LET l == LoadPriorHashes(s)
                     p_hash == PriorHash(l.ph, path, prior_dir[path])
                 IN IF p_hash # b_hash THEN _replace_with_prior(l, path) ELSE l
            ELSE s

\* merge_prior_only testing the files now in temp_dir for a file above the path.
merge_prior_only_live(s, path) ==
    IF path \in n_dirs \/ \E d \in Prefixes(path) : d \in DOMAIN s.tf THEN s
    ELSE IF path \in s.td THEN s
    ELSE _add_from_prior(s, path)

\* merge_prior_only without the test for a directory at temp_dir / path.
merge_prior_only_no_isdir(s, path) ==
    IF _has_type_conflict(path) THEN s
    ELSE _add_from_prior(s, path)

\* Lines 65-82: only the prior revision introduced this path.
merge_prior_only(s, path) ==
    IF _has_type_conflict(path) THEN s
    ELSE IF path \in s.td THEN s
    ELSE _add_from_prior(s, path)

\* merge_prior_deleted forgetting the n_sizes entry.
merge_prior_deleted_keep_size(s, path, b_ino, n_ino) ==
    IF path \notin DOMAIN base_hashes \/ path \notin DOMAIN s.nh
    THEN Raise(s)
    ELSE IF _content_matches(b_ino, n_ino, base_hashes[path], s.nh[path])
    THEN LET r == Remove(s, path)
         IN IF r.ok THEN [r EXCEPT !.nh = Pop(@, path)] ELSE r
    ELSE s

\* Lines 84-93: the prior revision deleted a path that both base and new have.
merge_prior_deleted(s, path, b_ino, n_ino) ==
    IF path \notin DOMAIN base_hashes \/ path \notin DOMAIN s.nh
    THEN Raise(s)   \* KeyError
    ELSE IF _content_matches(b_ino, n_ino, base_hashes[path], s.nh[path])
    THEN LET r == Remove(s, path)
         IN IF r.ok
            THEN [r EXCEPT !.nh = Pop(@, path), !.ns = Pop(@, path)]
            ELSE r
    ELSE s

\* merge_path taking a path from prior whenever new lacks it.
merge_path_ignore_base(s, path) ==
    LET b_ino == Get(base_inodes, path)
        p_ino == Get(prior_inodes, path)
        n_ino == Get(n_inodes, path)
    IN IF p_ino # None /\ n_ino = None
       THEN merge_prior_only(s, path)
       ELSE IF b_ino # None /\ p_ino = None /\ n_ino # None
       THEN merge_prior_deleted(s, path, b_ino, n_ino)
       ELSE IF b_ino # None /\ p_ino # None /\ n_ino # None
       THEN _merge_all_present(s, path, b_ino, p_ino, n_ino)
       ELSE s

\* The body of the loop of merge, lines 61-112, for one path.
merge_path(s, path) ==
    LET b_ino == Get(base_inodes, path)
        p_ino == Get(prior_inodes, path)
        n_ino == Get(n_inodes, path)
    IN IF b_ino = None /\ p_ino # None /\ n_ino = None
       THEN merge_prior_only(s, path)
       ELSE IF b_ino # None /\ p_ino = None /\ n_ino # None
       THEN merge_prior_deleted(s, path, b_ino, n_ino)
       ELSE IF b_ino # None /\ p_ino # None /\ n_ino # None
       THEN _merge_all_present(s, path, b_ino, p_ino, n_ino)
       ELSE s

----------------------------------------------------------------------------
(* The inputs of a merge call.  At one path the three trees hold at most   *)
(* three distinct inodes, numbered 1..3 in the order base, prior, new; the *)
(* inode of label k at path p is InoAt(p, k).                              *)

AllPathsSorted == SortedPaths(Paths)
PathRank(p) == CHOOSE i \in 1..Len(AllPathsSorted) : AllPathsSorted[i] = p
InoAt(p, k) == 3 * (PathRank(p) - 1) + k

Max(x, y) == IF x >= y THEN x ELSE y

\* b, q, n: the inode label of the path in base, prior and new (0: no file);
\* bh: the base manifest's hash; qd, nd: the content of prior's and new's file;
\* pe: the projection's entry for the path (None: no entry); ed: temp_dir
\* holds an empty directory at the path.
PathCfg ==
    {c \in [b : 0..1, q : 0..2, n : 0..3, bh : Hashes, qd : Data, nd : Data,
            pe : {None} \cup Hashes, ed : BOOLEAN] :
        /\ c.b + c.q + c.n > 0
        /\ c.q <= c.b + 1
        /\ c.n <= Max(c.b, c.q) + 1
        /\ (c.b = 0 => c.bh = HashOf(1))
        /\ (c.q = 0 => c.qd = 1 /\ c.pe = None)
        /\ (c.n = 0 => c.nd = 1)
        /\ (c.n # 0 /\ c.n = c.q => c.nd = c.qd)
        /\ (c.ed => c.b = 0 /\ c.q # 0 /\ c.n = 0)}

FilesOf(c, tree) == {p \in DOMAIN c : c[p][tree] # 0}

\* No file of a tree lies under another file of the tree, nor at a directory.
ValidTree(files, dirs) ==
    /\ \A p \in files : \A r \in files : p \notin Prefixes(r)
    /\ \A p \in files : \A d \in dirs : p # d /\ p \notin Prefixes(d)

ValidCfg(c) ==
    /\ ValidTree(FilesOf(c, "b"), {})
    /\ ValidTree(FilesOf(c, "q"), {})
    /\ ValidTree(FilesOf(c, "n"), {p \in DOMAIN c : c[p].ed})

File(p, k, d) == [ino |-> InoAt(p, k), data |-> d]

InitMerge ==
    \E act \in {A \in SUBSET Paths : Cardinality(A) \in 1..MaxPaths} :
    \E c \in [act -> PathCfg] :
    \E bm \in BOOLEAN, pf \in BOOLEAN :
        /\ ValidCfg(c)
        /\ (FilesOf(c, "b") = {} => bm)
        /\ (~bm => \A p \in act : c[p].bh = HashOf(1))
        /\ (~pf => \A p \in act : c[p].pe = None)
        /\ base_inodes = [p \in FilesOf(c, "b") |-> InoAt(p, c[p].b)]
        /\ base_hashes = [p \in (IF bm THEN FilesOf(c, "b") ELSE {}) |-> c[p].bh]
        /\ prior_dir = [p \in FilesOf(c, "q") |-> File(p, c[p].q, c[p].qd)]
        /\ paths_file =
             IF pf THEN SomeMap([p \in {x \in act : c[x].pe # None} |-> c[p].pe])
             ELSE NoMap
        /\ temp_files = [p \in FilesOf(c, "n") |-> File(p, c[p].n, c[p].nd)]
        /\ temp_dirs =
             LET empty == {p \in act : c[p].ed}
             IN empty \cup UNION {Prefixes(p) : p \in FilesOf(c, "n") \cup empty}
        /\ n_inodes = [p \in FilesOf(c, "n") |-> InoAt(p, c[p].n)]
        /\ n_hashes = [p \in FilesOf(c, "n") |-> HashOf(c[p].nd)]
        /\ n_sizes = [p \in FilesOf(c, "n") |-> SizeOf(c[p].nd)]
        /\ prior_hashes = NoMap
        /\ loads = 0
        /\ todo = SortedPaths(act)
        /\ pc = "loop"
        /\ start = [tf |-> temp_files, td |-> temp_dirs, nh |-> n_hashes, ns |-> n_sizes]

Current == [tf |-> temp_files, td |-> temp_dirs, nh |-> n_hashes, ns |-> n_sizes,
            ph |-> prior_hashes, loads |-> loads, ok |-> TRUE, fault |-> "none"]

Store(s) ==
    /\ temp_files' = s.tf
    /\ temp_dirs' = s.td
    /\ n_hashes' = s.nh
    /\ n_sizes' = s.ns
    /\ prior_hashes' = s.ph
    /\ loads' = s.loads
    /\ UNCHANGED <<base_inodes, base_hashes, prior_dir, paths_file, n_inodes, start>>
    /\ UNCHANGED <<svars, avars, xvars, yvars>>

\* An iteration taking any of the remaining paths, as a loop over the unsorted
\* set all_paths does.
MergeStep_any_order ==
    /\ pc = "loop"
    /\ todo # <<>>
    /\ \E i \in DOMAIN todo :
         LET s == merge_path(Current, todo[i])
             rest == SubSeq(todo, 1, i - 1) \o SubSeq(todo, i + 1, Len(todo))
         IN /\ s.ok
            /\ Store(s)
            /\ todo' = rest
            /\ pc' = IF rest = <<>> THEN "done" ELSE "loop"

\* One iteration of "for path in sorted(all_paths)" that completes; the loop
\* ends, and merge returns, after the last path.
MergeStep ==
    /\ pc = "loop"
    /\ todo # <<>>
    /\ LET s == merge_path(Current, Head(todo))
       IN /\ s.ok
          /\ Store(s)
          /\ todo' = Tail(todo)
          /\ pc' = IF Tail(todo) = <<>> THEN "done" ELSE "loop"

\* One iteration in which a call raises: merge ends with the exception.
MergeRaise ==
    /\ pc = "loop"
    /\ todo # <<>>
    /\ LET s == merge_path(Current, Head(todo))
       IN /\ ~s.ok
          /\ Store(s)
          /\ todo' = todo
          /\ pc' = "failed"

\* An iteration going on to the next path after an OSError.
MergeFault_swallow ==
    /\ pc = "loop"
    /\ todo # <<>>
    /\ \E f \in OsCalls :
         LET s == merge_path([Current EXCEPT !.fault = f], Head(todo))
         IN /\ ~s.ok
            /\ Store(s)
            /\ todo' = Tail(todo)
            /\ pc' = IF Tail(todo) = <<>> THEN "done" ELSE "loop"

\* One iteration in which os.link, os.remove or os.stat fails: the OSError
\* leaves the loop and merge, what the iteration had done until then remains.
MergeFault ==
    /\ pc = "loop"
    /\ todo # <<>>
    /\ \E f \in OsCalls :
         LET s == merge_path([Current EXCEPT !.fault = f], Head(todo))
         IN /\ ~s.ok
            /\ Store(s)
            /\ todo' = todo
            /\ pc' = "failed"

\* merge is called a second time with the arguments and the directories of the
\* first call, whose outcome is kept: lines 48-60 run again.
SecondRun ==
    /\ pc \in {"done", "failed"}
    /\ ~first.some
    /\ first' = [some |-> TRUE, pc |-> pc, tf |-> temp_files, td |-> temp_dirs,
                 nh |-> n_hashes, ns |-> n_sizes]
    /\ temp_files' = start.tf /\ temp_dirs' = start.td
    /\ n_hashes' = start.nh /\ n_sizes' = start.ns
    /\ prior_hashes' = NoMap
    /\ loads' = 0
    /\ todo' = SortedPaths(all_paths)
    /\ pc' = "loop"
    /\ UNCHANGED <<base_inodes, base_hashes, prior_dir, paths_file, n_inodes, start>>
    /\ UNCHANGED <<svars, avars, archive, iter, classified, creation, yvars>>

\* One iteration of the second of two calls when its loop takes the paths in
\* any order instead of sorted(all_paths): the body of the loop, lines 61-112,
\* for any of the remaining paths.
MergeStepPermuted ==
    /\ pc = "loop"
    /\ first.some
    /\ todo # <<>>
    /\ \E i \in DOMAIN todo :
         LET s == merge_path(Current, todo[i])
             rest == SubSeq(todo, 1, i - 1) \o SubSeq(todo, i + 1, Len(todo))
         IN /\ Store(s)
            /\ todo' = IF s.ok THEN rest ELSE todo
            /\ pc' = IF ~s.ok THEN "failed" ELSE IF rest = <<>> THEN "done" ELSE "loop"

\* merge has returned and is called again on its own result: base and prior as
\* before, temp_dir, n_hashes and n_sizes as the first call left them, n_inodes
\* scanned anew from temp_dir; lines 48-60 run again.
Rerun ==
    /\ pc = "done"
    /\ ~first.some
    /\ first' = [some |-> TRUE, pc |-> pc, tf |-> temp_files, td |-> temp_dirs,
                 nh |-> n_hashes, ns |-> n_sizes]
    /\ n_inodes' = paths_to_inodes(temp_files)
    /\ start' = [tf |-> temp_files, td |-> temp_dirs, nh |-> n_hashes, ns |-> n_sizes]
    /\ prior_hashes' = NoMap
    /\ loads' = 0
    /\ todo' = SortedPaths(DOMAIN base_inodes \cup DOMAIN prior_inodes
                               \cup DOMAIN temp_files)
    /\ pc' = IF DOMAIN base_inodes \cup DOMAIN prior_inodes \cup DOMAIN temp_files = {}
             THEN "done" ELSE "loop"
    /\ UNCHANGED <<base_inodes, base_hashes, prior_dir, paths_file, temp_files,
                   temp_dirs, n_hashes, n_sizes>>
    /\ UNCHANGED <<svars, avars, archive, iter, classified, creation, yvars>>

----------------------------------------------------------------------------
(* The manifest store, atr/attestable.py.  The content of a file is a      *)
(* record: valid says that it parses and validates as AttestableChecksV1,  *)
(* checks is the list it then holds; a file just created or truncated by   *)
(* open(path, "w") is empty, which is not valid JSON.                      *)

Tasks == 1..NumTasks
Ids == 1..MaxId

Range(q) == {q[i] : i \in DOMAIN q}

\* sorted(a set of ints)
RECURSIVE sorted(_)
sorted(S) ==
    IF S = {} THEN <<>>
    ELSE LET m == CHOOSE x \in S : \A y \in S : x <= y
         IN <<m>> \o sorted(S \ {m})

Invalid == [valid |-> FALSE, checks |-> <<>>]
ChecksJson(list) == [valid |-> TRUE, checks |-> list]

\* A file of the attestable directory: st is "absent", "partial" (created or
\* truncated, its content not yet written) or "complete"; by names the writer
\* whose open() or rename made the present inode.
Absent == [st |-> "absent", content |-> Invalid, by |-> "none"]

\* modify appending the new ids to the list it read.
modify_append(content, checks) ==
    LET current == IF content.valid THEN content.checks ELSE <<>>
    IN ChecksJson(current \o checks)

\* write_checks_data.modify, lines 189-197.
modify(content, checks) ==
    LET current == IF content.valid THEN content.checks ELSE <<>>
        new_checks == Range(current) \cup Range(checks)
    IN ChecksJson(sorted(new_checks))

\* AttestableChecksV1().model_dump_json(): the empty index.
EmptyChecks == ChecksJson(<<>>)

\* load_checks, lines 97-110: [] for a missing or invalid file.
load_checks ==
    IF checks_file.st # "absent" /\ checks_file.content.valid
    THEN checks_file.content.checks
    ELSE <<>>

MergeIdle ==
    /\ base_inodes = <<>> /\ base_hashes = <<>> /\ prior_dir = <<>>
    /\ paths_file = NoMap /\ temp_files = <<>> /\ temp_dirs = {}
    /\ n_inodes = <<>> /\ n_hashes = <<>> /\ n_sizes = <<>>
    /\ prior_hashes = NoMap /\ loads = 0 /\ todo = <<>> /\ pc = "idle"
    /\ start = [tf |-> <<>>, td |-> {}, nh |-> <<>>, ns |-> <<>>]

StoreIdle ==
    /\ manifest_file = "absent" /\ projection_file = "absent"
    /\ checks_file = Absent
    /\ w_pc = "idle"
    /\ t_pc = [t \in Tasks |-> "idle"]
    /\ t_checks = [t \in Tasks |-> <<>>]
    /\ t_old = [t \in Tasks |-> Invalid]
    /\ t_tmp = [t \in Tasks |-> Invalid]
    /\ seen = [file |-> "none", st |-> "absent"]

\* The lists of ids a write_checks_data call is given, in any order and with
\* repetitions.
IdLists == UNION {[1..n -> Ids] : n \in 1..MaxId}

\* A revision directory before write_files_data, or one whose checks index an
\* earlier write has left with a sorted list of ids; each task is about to
\* record its check result ids.
InitStore ==
    /\ manifest_file = "absent" /\ projection_file = "absent"
    /\ \E E \in SUBSET Ids, present \in BOOLEAN :
         /\ (~present => E = {})
         /\ checks_file = IF present
                          THEN [st |-> "complete", content |-> ChecksJson(sorted(E)),
                                by |-> "checks"]
                          ELSE Absent
    /\ w_pc = "start"
    /\ t_pc = [t \in Tasks |-> "start"]
    /\ t_checks \in [Tasks -> IdLists]
    /\ t_old = [t \in Tasks |-> Invalid]
    /\ t_tmp = [t \in Tasks |-> Invalid]
    /\ seen = [file |-> "none", st |-> "absent"]

\* write_files_data, line 171: util.atomic_write_file has written the temporary
\* file of the full manifest.
WriteManifestTemp ==
    /\ w_pc = "start"
    /\ w_pc' = "manifest_tmp"
    /\ UNCHANGED <<manifest_file, projection_file, checks_file, t_pc, t_checks, t_old,
                   t_tmp, seen>>
    /\ UNCHANGED <<mvars, avars, xvars, yvars>>

\* Line 171: the rename of util.atomic_write_file puts the full manifest in place.
RenameManifest ==
    /\ w_pc = "manifest_tmp"
    /\ manifest_file' = "complete"
    /\ w_pc' = "manifest_done"
    /\ UNCHANGED <<projection_file, checks_file, t_pc, t_checks, t_old, t_tmp, seen>>
    /\ UNCHANGED <<mvars, avars, xvars, yvars>>

\* Line 174: the temporary file of the paths projection is written.
WriteProjectionTemp ==
    /\ w_pc = "manifest_done"
    /\ w_pc' = "projection_tmp"
    /\ UNCHANGED <<manifest_file, projection_file, checks_file, t_pc, t_checks, t_old,
                   t_tmp, seen>>
    /\ UNCHANGED <<mvars, avars, xvars, yvars>>

\* Line 174: the rename puts the paths projection in place.
RenameProjection ==
    /\ w_pc = "projection_tmp"
    /\ projection_file' = "complete"
    /\ w_pc' = "projection_done"
    /\ UNCHANGED <<manifest_file, checks_file, t_pc, t_checks, t_old, t_tmp, seen>>
    /\ UNCHANGED <<mvars, avars, xvars, yvars>>

\* Line 176: "if not checks_file_path.exists()".
TestChecksExists ==
    /\ w_pc = "projection_done"
    /\ w_pc' = IF checks_file.st = "absent" THEN "checks_missing" ELSE "done"
    /\ UNCHANGED <<manifest_file, projection_file, checks_file, t_pc, t_checks, t_old,
                   t_tmp, seen>>
    /\ UNCHANGED <<mvars, avars, xvars, yvars>>

\* Line 177: aiofiles.open(checks_file_path, "w") creates the file, or truncates
\* the one that has appeared since the test.
OpenChecks ==
    /\ w_pc = "checks_missing"
    /\ checks_file' = [st |-> "partial", content |-> Invalid, by |-> "files"]
    /\ w_pc' = "checks_open"
    /\ UNCHANGED <<manifest_file, projection_file, t_pc, t_checks, t_old, t_tmp, seen>>
    /\ UNCHANGED <<mvars, avars, xvars, yvars>>

\* Line 178: the empty index is written to the open file, which is the file at
\* the path unless a rename has replaced it.
WriteChecks ==
    /\ w_pc = "checks_open"
    /\ checks_file' = IF checks_file.by = "files"
                      THEN [st |-> "complete", content |-> EmptyChecks, by |-> "files"]
                      ELSE checks_file
    /\ w_pc' = "done"
    /\ UNCHANGED <<manifest_file, projection_file, t_pc, t_checks, t_old, t_tmp, seen>>
    /\ UNCHANGED <<mvars, avars, xvars, yvars>>

\* util.atomic_modify_file, called at line 199, reads the file; it is called
\* for a checks index that exists.
ReadChecks(t) ==
    /\ t_pc[t] = "start"
    /\ checks_file.st # "absent"
    /\ t_old' = [t_old EXCEPT ![t] = checks_file.content]
    /\ t_pc' = [t_pc EXCEPT ![t] = "read"]
    /\ UNCHANGED <<manifest_file, projection_file, checks_file, w_pc, t_checks, t_tmp, seen>>
    /\ UNCHANGED <<mvars, avars, xvars, yvars>>

\* atomic_modify_file applies modify and writes the result to a temporary file.
ModifyChecks(t) ==
    /\ t_pc[t] = "read"
    /\ t_tmp' = [t_tmp EXCEPT ![t] = modify(t_old[t], t_checks[t])]
    /\ t_pc' = [t_pc EXCEPT ![t] = "modified"]
    /\ UNCHANGED <<manifest_file, projection_file, checks_file, w_pc, t_checks, t_old, seen>>
    /\ UNCHANGED <<mvars, avars, xvars, yvars>>

\* atomic_modify_file renames the temporary file over the checks index;
\* write_checks_data returns.
RenameChecks(t) ==
    /\ t_pc[t] = "modified"
    /\ checks_file' = [st |-> "complete", content |-> t_tmp[t], by |-> "checks"]
    /\ t_pc' = [t_pc EXCEPT ![t] = "done"]
    /\ UNCHANGED <<manifest_file, projection_file, w_pc, t_checks, t_old, t_tmp, seen>>
    /\ UNCHANGED <<mvars, avars, xvars, yvars>>

\* A reader (load, load_paths, load_checks) running concurrently opens a file.
ReaderOpen ==
    /\ \E f \in {"manifest", "projection", "checks"} :
         seen' = [file |-> f,
                  st |-> IF f = "manifest" THEN manifest_file
                         ELSE IF f = "projection" THEN projection_file
                         ELSE checks_file.st]
    /\ UNCHANGED <<manifest_file, projection_file, checks_file, w_pc, t_pc, t_checks,
                   t_old, t_tmp>>
    /\ UNCHANGED <<mvars, avars, xvars, yvars>>

----------------------------------------------------------------------------
(* Persisted files and their readers, atr/attestable.py lines 60-110.  A   *)
(* file is [kind, data]: kind "valid" with the model that was dumped, or   *)
(* "missing", or one of the ways its bytes fail to yield a model.          *)

Uploaders == 1..NumUploaders
ManifestPaths == {<<x>> : x \in Names}
Sizes == {SizeOf(d) : d \in Data}

\* models.AttestableV1 | None (the policy, an opaque snapshot, is left out).
NoManifest == [some |-> FALSE, paths |-> <<>>, hashes |-> <<>>]
AttestableV1(paths, hashes) == [some |-> TRUE, paths |-> paths, hashes |-> hashes]

\* models.HashEntry
HashEntry(size, uploaders) == [size |-> size, uploaders |-> uploaders]

Missing == [kind |-> "missing", data |-> <<>>]
Damaged(kind) == [kind |-> kind, data |-> <<>>]
DamageKinds == {"bad_utf8", "not_json", "bad_schema"}

\* model_dump_json written to the file.
Dump(model) == [kind |-> "valid", data |-> model]

\* Lines 69-71, 85-87, 105-107: open(encoding="utf-8"), read, json.loads and
\* model_validate; the exception the statements end with, or "ok".
ReadModel(file) ==
    IF file.kind = "bad_utf8" THEN "UnicodeDecodeError"
    ELSE IF file.kind = "not_json" THEN "JSONDecodeError"
    ELSE IF file.kind = "bad_schema" THEN "ValidationError"
    ELSE "ok"

\* "except (json.JSONDecodeError, pydantic.ValidationError)", lines 72, 88, 108.
Caught == {"JSONDecodeError", "ValidationError"}

Returns(v) == [raised |-> FALSE, value |-> v]
Raises == [raised |-> TRUE, value |-> <<>>]

\* load, lines 60-74.
load(file) ==
    IF file.kind = "missing" THEN Returns(NoManifest)
    ELSE IF ReadModel(file) = "ok" THEN Returns(file.data)
    ELSE IF ReadModel(file) \in Caught THEN Returns(NoManifest)
    ELSE Raises

\* load_paths, lines 77-94, on the file at the projection's path.
load_paths_file(file) ==
    IF file.kind # "missing"
    THEN IF ReadModel(file) = "ok" THEN Returns(SomeMap(file.data.paths))
         ELSE IF ReadModel(file) \in Caught THEN Returns(NoMap)
         ELSE Raises
    ELSE Returns(NoMap)

\* load_checks, lines 97-110, on the file at the index's path.
load_checks_file(file) ==
    IF file.kind # "missing"
    THEN IF ReadModel(file) = "ok" THEN Returns(file.data.checks)
         ELSE IF ReadModel(file) \in Caught THEN Returns(<<>>)
         ELSE Raises
    ELSE Returns(<<>>)

----------------------------------------------------------------------------
(* Attribution, atr/attestable.py lines 202-257 *)

\* "setdefault(hash_ref, set()).add(path_key)" over a path -> hash mapping.
GroupByHash(paths) ==
    [h \in {paths[p] : p \in DOMAIN paths} |-> {p \in DOMAIN paths : paths[p] = h}]

\* The loop body creating no entry for a hash that previous lacks.
attribute_hash_no_create(new_hashes, hash_ref, current_paths, previous_paths, file_size, pair) ==
    IF hash_ref \notin DOMAIN new_hashes
    THEN new_hashes
    ELSE IF Cardinality(current_paths) > Cardinality(previous_paths)
    THEN IF pair \notin Range(new_hashes[hash_ref].uploaders)
         THEN [new_hashes EXCEPT ![hash_ref].uploaders = Append(@, pair)]
         ELSE new_hashes
    ELSE new_hashes

\* The loop body comparing the path counts with >= instead of >.
attribute_hash_not_fewer(new_hashes, hash_ref, current_paths, previous_paths, file_size, pair) ==
    IF hash_ref \notin DOMAIN new_hashes
    THEN Put(new_hashes, hash_ref, HashEntry(file_size, <<pair>>))
    ELSE IF Cardinality(current_paths) >= Cardinality(previous_paths)
    THEN IF pair \notin Range(new_hashes[hash_ref].uploaders)
         THEN [new_hashes EXCEPT ![hash_ref].uploaders = Append(@, pair)]
         ELSE new_hashes
    ELSE new_hashes

\* The loop body appending without looking for the pair.
attribute_hash_no_dedupe(new_hashes, hash_ref, current_paths, previous_paths, file_size, pair) ==
    IF hash_ref \notin DOMAIN new_hashes
    THEN Put(new_hashes, hash_ref, HashEntry(file_size, <<pair>>))
    ELSE IF Cardinality(current_paths) > Cardinality(previous_paths)
    THEN [new_hashes EXCEPT ![hash_ref].uploaders = Append(@, pair)]
    ELSE new_hashes

\* The loop body attributing a hash whenever its set of paths has changed.
attribute_hash_on_change(new_hashes, hash_ref, current_paths, previous_paths, file_size, pair) ==
    IF hash_ref \notin DOMAIN new_hashes
    THEN Put(new_hashes, hash_ref, HashEntry(file_size, <<pair>>))
    ELSE IF current_paths # previous_paths
    THEN IF pair \notin Range(new_hashes[hash_ref].uploaders)
         THEN [new_hashes EXCEPT ![hash_ref].uploaders = Append(@, pair)]
         ELSE new_hashes
    ELSE new_hashes

\* Lines 224-232: the body of "for hash_ref, current_paths in ...".
attribute_hash(new_hashes, hash_ref, current_paths, previous_paths, file_size, pair) ==
    IF hash_ref \notin DOMAIN new_hashes
    THEN Put(new_hashes, hash_ref, HashEntry(file_size, <<pair>>))
    ELSE IF Cardinality(current_paths) > Cardinality(previous_paths)
    THEN IF pair \notin Range(new_hashes[hash_ref].uploaders)
         THEN [new_hashes EXCEPT ![hash_ref].uploaders = Append(@, pair)]
         ELSE new_hashes
    ELSE new_hashes

\* Lines 219-232: the loop over the hashes hs still to visit.
RECURSIVE AttributeLoop(_, _, _, _, _, _)
AttributeLoop(hs, new_hashes, current_hash_to_paths, previous_hash_to_paths, file_size, pair) ==
    IF hs = {} THEN new_hashes
    ELSE LET hash_ref == CHOOSE h \in hs : \A g \in hs : h <= g
             previous_paths == IF hash_ref \in DOMAIN previous_hash_to_paths
                               THEN previous_hash_to_paths[hash_ref]
                               ELSE {}
         IN AttributeLoop(hs \ {hash_ref},
                          attribute_hash(new_hashes, hash_ref,
                                         current_hash_to_paths[hash_ref],
                                         previous_paths, file_size[hash_ref], pair),
                          current_hash_to_paths, previous_hash_to_paths,
                          file_size, pair)

\* _compute_hashes_with_attribution carrying forward only the entries of the
\* hashes that the current revision still has.
_compute_hashes_current_only(current_hash_to_paths, path_to_size, previous, uploader_uid, revision_number, sample_path) ==
    LET previous_hash_to_paths == IF previous.some THEN GroupByHash(previous.paths)
                                  ELSE <<>>
        carried == IF previous.some
                   THEN [h \in DOMAIN previous.hashes \cap DOMAIN current_hash_to_paths
                            |-> previous.hashes[h]]
                   ELSE <<>>
        file_size == [h \in DOMAIN current_hash_to_paths |->
                          path_to_size[sample_path[h]]]
    IN AttributeLoop(DOMAIN current_hash_to_paths, carried, current_hash_to_paths,
                     previous_hash_to_paths, file_size,
                     <<uploader_uid, revision_number>>)

\* _compute_hashes_with_attribution, lines 202-234.  sample_path[h] is the path
\* that next(iter(current_paths)) yields for the hash h.
_compute_hashes_with_attribution(current_hash_to_paths, path_to_size, previous, uploader_uid, revision_number, sample_path) ==
    LET previous_hash_to_paths == IF previous.some THEN GroupByHash(previous.paths)
                                  ELSE <<>>
        carried == IF previous.some THEN previous.hashes ELSE <<>>
        file_size == [h \in DOMAIN current_hash_to_paths |->
                          path_to_size[sample_path[h]]]
    IN AttributeLoop(DOMAIN current_hash_to_paths, carried, current_hash_to_paths,
                     previous_hash_to_paths, file_size,
                     <<uploader_uid, revision_number>>)

\* _generate_files_data, lines 237-257.
_generate_files_data(path_to_hash, path_to_size, revision_number, uploader_uid, previous, sample_path) ==
    AttestableV1(path_to_hash,
                 _compute_hashes_with_attribution(GroupByHash(path_to_hash),
                     path_to_size, previous, uploader_uid, revision_number,
                     sample_path))

----------------------------------------------------------------------------
(* The revisions of one (project, version).  manifests[r] is the file      *)
(* <r>.json with from, the revision whose manifest the file's attribution  *)
(* descends from (0: it was computed from no previous manifest).           *)

PathMaps == UNION {[S -> Hashes] : S \in SUBSET ManifestPaths}

\* The paths next(iter(current_paths)) can yield, one for each current hash.
SamplePaths(path_to_hash) ==
    LET g == GroupByHash(path_to_hash)
    IN {f \in [DOMAIN g -> ManifestPaths] : \A h \in DOMAIN g : f[h] \in g[h]}

NoCall == [st |-> "none", n |-> 0, path_to_hash |-> <<>>, path_to_size |-> <<>>,
           uploader_uid |-> 0, revision_number |-> 0, previous |-> NoManifest,
           result |-> NoManifest]

NoFiles == [manifest |-> Missing, paths |-> Missing, checks |-> Missing]
NoResult == [fn |-> "none", raised |-> FALSE, value |-> <<>>]

AttrIdle ==
    /\ manifests = <<>> /\ call = NoCall /\ r_files = NoFiles /\ r_result = NoResult

\* No second merge run, no archive, no classify call, no create_revision call.
NoRun == [some |-> FALSE, pc |-> "idle", tf |-> <<>>, td |-> {}, nh |-> <<>>, ns |-> <<>>]
NoArchive == [kind |-> "none", members |-> <<>>, max_members |-> 0]
NoIter == [st |-> "none", pos |-> 0, count |-> 0, yielded |-> <<>>]
NoClassify == [st |-> "none"]
NoCreation == [st |-> "none"]

\* No file in attestable_dir, no write_files_data call on it, no migration, no
\* attribution on objects, no paths_to_hashes_and_sizes call, no check call.
NoDir == <<>>
NoWriter == [st |-> "none"]
NoMigration == [st |-> "none"]
NoHeap == [st |-> "none"]
NoWalk == [st |-> "none"]
NoCheck == [st |-> "none"]

ExtraIdle ==
    /\ first = NoRun /\ archive = NoArchive /\ iter = NoIter
    /\ classified = NoClassify /\ creation = NoCreation
    /\ attestable_dir = NoDir /\ writer = NoWriter /\ migration = NoMigration
    /\ heap = NoHeap /\ walk = NoWalk /\ check = NoCheck

\* The size maps a caller can pass with path_to_hash: any, or (accurate) the
\* sizes of the contents that the hashes stand for.
SizeMaps(path_to_hash, accurate) ==
    {f \in [DOMAIN path_to_hash -> Sizes] :
        accurate => \A p \in DOMAIN f : \E d \in Data :
                        path_to_hash[p] = HashOf(d) /\ f[p] = SizeOf(d)}

\* write_files_data, lines 159-171, for revision_number, the caller having
\* loaded the previous manifest; the full manifest is renamed into place.  n is
\* the number of the call in a run that counts its calls, else 0.
write_files_data(n, revision_number, loaded, from, accurate) ==
    \E path_to_hash \in PathMaps, uploader_uid \in Uploaders :
    \E path_to_size \in SizeMaps(path_to_hash, accurate) :
    \E sample_path \in SamplePaths(path_to_hash) :
        LET args == [NoCall EXCEPT !.n = n,
                                   !.path_to_hash = path_to_hash,
                                   !.path_to_size = path_to_size,
                                   !.uploader_uid = uploader_uid,
                                   !.revision_number = revision_number]
        IN IF loaded.raised
           THEN /\ call' = [args EXCEPT !.st = "raised"]
                /\ UNCHANGED manifests
           ELSE LET result == _generate_files_data(path_to_hash, path_to_size,
                                  revision_number, uploader_uid, loaded.value,
                                  sample_path)
                    entry == [file |-> Dump(result),
                              from |-> IF loaded.value.some THEN from ELSE 0]
                IN /\ call' = [args EXCEPT !.st = "written",
                                           !.previous = loaded.value,
                                           !.result = result]
                   /\ manifests' = IF revision_number > Len(manifests)
                                   THEN Append(manifests, entry)
                                   ELSE [manifests EXCEPT ![revision_number] = entry]

\* The manifest of the revision before the one being created, as loaded.
LoadLatest ==
    IF manifests = <<>> THEN Returns(NoManifest)
    ELSE load(manifests[Len(manifests)].file)

\* write_files_data for a new revision, with any path, hash and size maps.
WriteFilesData ==
    /\ call.n < MaxWrites
    /\ write_files_data(call.n + 1, Len(manifests) + 1, LoadLatest, Len(manifests),
                        FALSE)
    /\ UNCHANGED <<r_files, r_result>>
    /\ UNCHANGED <<mvars, svars, xvars, yvars>>

\* write_files_data called again for the latest revision, with the manifest
\* that the earlier call wrote as previous.
RepeatWrite ==
    /\ call.n < MaxWrites
    /\ Len(manifests) >= 1
    /\ write_files_data(call.n + 1, Len(manifests), LoadLatest,
                        manifests[Len(manifests)].from, FALSE)
    /\ UNCHANGED <<r_files, r_result>>
    /\ UNCHANGED <<mvars, svars, xvars, yvars>>

\* A new revision is created: its manifest is computed from the manifest loaded
\* for the revision before it, from none for the first revision.
CreateRevision ==
    /\ Len(manifests) < MaxRev
    /\ write_files_data(0, Len(manifests) + 1, LoadLatest, Len(manifests), TRUE)
    /\ UNCHANGED <<r_files, r_result>>
    /\ UNCHANGED <<mvars, svars, xvars, yvars>>

\* The manifest file of the latest revision is damaged on disk.
DamageManifest ==
    /\ Len(manifests) >= 1
    /\ manifests[Len(manifests)].file.kind = "valid"
    /\ \E k \in DamageKinds :
         manifests' = [manifests EXCEPT ![Len(manifests)].file = Damaged(k)]
    /\ UNCHANGED <<call, r_files, r_result>>
    /\ UNCHANGED <<mvars, svars, xvars, yvars>>

----------------------------------------------------------------------------
(* Attribution on objects, atr/attestable.py lines 202-257.  The uploaders *)
(* lists are objects: heap.lists[i] is the list with identity i, and a     *)
(* HashEntry holds the identity of its list, so that an append through one *)
(* entry shows in every entry that holds the same list.                    *)

IdleHeap ==
    [st |-> "idle", lists |-> <<>>, previous |-> NoManifest, before |-> NoManifest,
     result |-> NoManifest, n |-> 0]

\* The manifest m with each list identity replaced by the list it names.
Deref(m, lists) ==
    [some |-> m.some, paths |-> m.paths,
     hashes |-> [h \in DOMAIN m.hashes |->
                    HashEntry(m.hashes[h].size, lists[m.hashes[h].uploaders])]]

\* A copy of the entry that holds the very list of the original.
model_copy_shallow(lists, hash_entry) == [lists |-> lists, entry |-> hash_entry]

\* hash_entry.model_copy(deep=True), line 217: a new entry with a new list that
\* has the pairs of the original.
model_copy(lists, hash_entry) ==
    [lists |-> Append(lists, lists[hash_entry.uploaders]),
     entry |-> [hash_entry EXCEPT !.uploaders = Len(lists) + 1]]

\* Lines 214-217: "for hash_key, hash_entry in previous.hashes.items()", over
\* the hashes hs still to visit; s is [lists, new_hashes].
RECURSIVE CopyPrevious(_, _, _)
CopyPrevious(hs, s, hashes) ==
    IF hs = {} THEN s
    ELSE LET hash_key == CHOOSE h \in hs : \A g \in hs : h <= g
             c == model_copy(s.lists, hashes[hash_key])
         IN CopyPrevious(hs \ {hash_key},
                         [lists |-> c.lists,
                          new_hashes |-> Put(s.new_hashes, hash_key, c.entry)],
                         hashes)

\* Lines 224-232 on objects: a new entry with a new list, or an append to the
\* list of the entry that new_hashes has.
attribute_object(s, hash_ref, current_paths, previous_paths, file_size, pair) ==
    IF hash_ref \notin DOMAIN s.new_hashes
    THEN [lists |-> Append(s.lists, <<pair>>),
          new_hashes |-> Put(s.new_hashes, hash_ref,
                             HashEntry(file_size, Len(s.lists) + 1))]
    ELSE IF Cardinality(current_paths) > Cardinality(previous_paths)
    THEN LET existing_entries == Range(s.lists[s.new_hashes[hash_ref].uploaders])
         IN IF pair \notin existing_entries
            THEN [s EXCEPT !.lists[s.new_hashes[hash_ref].uploaders] = Append(@, pair)]
            ELSE s
    ELSE s

\* Lines 219-232 on objects, over the hashes hs still to visit.
RECURSIVE AttributeObjects(_, _, _, _, _, _)
AttributeObjects(hs, s, current_hash_to_paths, previous_hash_to_paths, file_size, pair) ==
    IF hs = {} THEN s
    ELSE LET hash_ref == CHOOSE h \in hs : \A g \in hs : h <= g
             previous_paths == IF hash_ref \in DOMAIN previous_hash_to_paths
                               THEN previous_hash_to_paths[hash_ref]
                               ELSE {}
         IN AttributeObjects(hs \ {hash_ref},
                             attribute_object(s, hash_ref,
                                              current_hash_to_paths[hash_ref],
                                              previous_paths, file_size[hash_ref],
                                              pair),
                             current_hash_to_paths, previous_hash_to_paths,
                             file_size, pair)

\* _generate_files_data, lines 237-257, is called with the manifest object of
\* the call before as previous (None at first) and returns a new manifest.
GenerateOnHeap ==
    /\ heap.n < MaxRev
    /\ \E path_to_hash \in PathMaps, uploader_uid \in Uploaders :
       \E path_to_size \in SizeMaps(path_to_hash, TRUE) :
       \E sample_path \in SamplePaths(path_to_hash) :
         LET previous == heap.result
             current_hash_to_paths == GroupByHash(path_to_hash)
             previous_hash_to_paths == IF previous.some
                                       THEN GroupByHash(previous.paths) ELSE <<>>
             copied == IF previous.some
                       THEN CopyPrevious(DOMAIN previous.hashes,
                                         [lists |-> heap.lists, new_hashes |-> <<>>],
                                         previous.hashes)
                       ELSE [lists |-> heap.lists, new_hashes |-> <<>>]
             file_size == [h \in DOMAIN current_hash_to_paths |->
                               path_to_size[sample_path[h]]]
             s == AttributeObjects(DOMAIN current_hash_to_paths, copied,
                                   current_hash_to_paths, previous_hash_to_paths,
                                   file_size, <<uploader_uid, heap.n + 1>>)
         IN heap' = [st |-> "returned", lists |-> s.lists, previous |-> previous,
                     before |-> Deref(previous, heap.lists),
                     result |-> AttestableV1(path_to_hash, s.new_hashes),
                     n |-> heap.n + 1]
    /\ UNCHANGED <<attestable_dir, writer, migration, walk, check>>
    /\ UNCHANGED <<mvars, svars, avars, xvars>>

----------------------------------------------------------------------------
(* The readers called on the files of one revision *)

\* The manifest of a first revision with the files of path_to_hash.
FirstManifest(path_to_hash) ==
    _generate_files_data(path_to_hash,
                         CHOOSE f \in SizeMaps(path_to_hash, TRUE) : TRUE,
                         1, 1, NoManifest,
                         CHOOSE f \in SamplePaths(path_to_hash) : TRUE)

Unreadable == {Missing} \cup {Damaged(k) : k \in DamageKinds}

ManifestFiles == Unreadable \cup {Dump(FirstManifest(p)) : p \in PathMaps}
PathsFiles == Unreadable \cup {Dump([paths |-> p]) : p \in PathMaps}
ChecksFiles == Unreadable \cup {Dump([checks |-> sorted(E)]) : E \in SUBSET Ids}

InitRead ==
    /\ r_files \in [manifest : ManifestFiles, paths : PathsFiles, checks : ChecksFiles]
    /\ r_result = NoResult
    /\ manifests = <<>> /\ call = NoCall
    /\ MergeIdle /\ StoreIdle /\ ExtraIdle

Outcome(fn, returned) ==
    [fn |-> fn, raised |-> returned.raised, value |-> returned.value]

CallLoad ==
    /\ r_result' = Outcome("load", load(r_files.manifest))
    /\ UNCHANGED <<manifests, call, r_files>>
    /\ UNCHANGED <<mvars, svars, xvars, yvars>>

CallLoadPaths ==
    /\ r_result' = Outcome("load_paths", load_paths_file(r_files.paths))
    /\ UNCHANGED <<manifests, call, r_files>>
    /\ UNCHANGED <<mvars, svars, xvars, yvars>>

CallLoadChecks ==
    /\ r_result' = Outcome("load_checks", load_checks_file(r_files.checks))
    /\ UNCHANGED <<manifests, call, r_files>>
    /\ UNCHANGED <<mvars, svars, xvars, yvars>>

----------------------------------------------------------------------------
(* The directory of one (project, version) under the attestable directory: *)
(* for each revision the file <revision>.json and the file                 *)
(* <revision>.paths.json, written by write_files_data and by               *)
(* migrate_to_paths_files, atr/attestable.py lines 113-142 and 159-174.    *)

Revs == 1..NumRevs

\* The path-to-hash maps of the revisions of the directory: at most one path.
DirPathMaps == {m \in PathMaps : Cardinality(DOMAIN m) <= 1}

\* models.AttestablePathsV1 with the paths of a validated manifest, with none.
AttestablePathsV1_empty(paths) == [paths |-> <<>>]

\* models.AttestablePathsV1(paths=...), lines 133 and 172.
AttestablePathsV1(paths) == [paths |-> paths]

\* A directory from before the projection existed: manifests, some of which do
\* not parse, and no projection.
LegacyDirs ==
    [Revs -> [manifest : Unreadable \cup {Dump(FirstManifest(m)) : m \in DirPathMaps},
              paths : {Missing}]]

\* A directory with any files, as damage or interrupted calls can leave it.
AnyDirs ==
    [Revs -> [manifest : Unreadable \cup {Dump(FirstManifest(m)) : m \in DirPathMaps},
              paths : Unreadable \cup {Dump(AttestablePathsV1(m)) : m \in DirPathMaps}]]

\* sorted(version_dir.glob("*.json")) without the names whose stem has a dot:
\* the manifests in the directory when the loop starts, by revision.
RECURSIVE Ascending(_)
Ascending(S) ==
    IF S = {} THEN <<>>
    ELSE LET m == CHOOSE x \in S : \A y \in S : x <= y
         IN <<m>> \o Ascending(S \ {m})

json_files == Ascending({r \in Revs : attestable_dir[r].manifest.kind # "missing"})

IdleMigration ==
    [st |-> "idle", todo |-> <<>>, validated |-> NoManifest, count |-> 0,
     created |-> {}, returns |-> <<>>, before |-> <<>>]

IdleWriter == [st |-> "idle", rev |-> 0, result |-> NoManifest, written |-> {}]

\* write_files_data for a revision that has no manifest yet, line 171: the
\* full manifest is renamed into place.
DirWriteManifest ==
    /\ writer.st = "idle"
    /\ \E r \in Revs, m \in DirPathMaps :
         /\ attestable_dir[r].manifest.kind = "missing"
         /\ r \notin writer.written
         /\ LET result == FirstManifest(m)
            IN /\ attestable_dir' = [attestable_dir EXCEPT ![r].manifest = Dump(result)]
               /\ writer' = [st |-> "manifest_done", rev |-> r, result |-> result,
                             written |-> writer.written \cup {r}]
    /\ UNCHANGED <<migration, heap, walk, check>>
    /\ UNCHANGED <<mvars, svars, avars, xvars>>

\* Lines 172-174: the projection of the same result is renamed into place.
DirWriteProjection ==
    /\ writer.st = "manifest_done"
    /\ attestable_dir' =
         [attestable_dir EXCEPT ![writer.rev].paths =
              Dump(AttestablePathsV1(writer.result.paths))]
    /\ writer' = [writer EXCEPT !.st = "idle"]
    /\ UNCHANGED <<migration, heap, walk, check>>
    /\ UNCHANGED <<mvars, svars, avars, xvars>>

\* migrate_to_paths_files is called, lines 113-123: the loop over the manifests
\* of the directory starts with count = 0.
MigrateStart ==
    /\ migration.st \in {"idle", "returned"}
    /\ Len(migration.returns) < MaxRuns
    /\ migration' = [migration EXCEPT
                         !.st = "loop", !.todo = json_files, !.count = 0,
                         !.created = {},
                         !.before = IF migration.st = "idle"
                                    THEN attestable_dir ELSE migration.before]
    /\ UNCHANGED <<attestable_dir, writer, heap, walk, check>>
    /\ UNCHANGED <<mvars, svars, avars, xvars>>

\* Lines 123-133 and 140-141 for the next manifest: the target exists and the
\* file is passed over, or the manifest is read and validated, and passed over
\* when that raises one of the two exceptions caught; another exception
\* leaves the function.
MigrateRead ==
    /\ migration.st = "loop"
    /\ migration.todo # <<>>
    /\ LET r == Head(migration.todo)
           target == attestable_dir[r].paths
           json_file == attestable_dir[r].manifest
       IN migration' =
            IF target.kind # "missing"
            THEN [migration EXCEPT !.todo = Tail(@)]
            ELSE IF ReadModel(json_file) = "ok"
            THEN [migration EXCEPT !.st = "validated", !.validated = json_file.data]
            ELSE IF ReadModel(json_file) \in Caught
            THEN [migration EXCEPT !.todo = Tail(@)]
            ELSE [migration EXCEPT !.st = "raised"]
    /\ UNCHANGED <<attestable_dir, writer, heap, walk, check>>
    /\ UNCHANGED <<mvars, svars, avars, xvars>>

\* Lines 133-139: the projection is written to the temporary file, which
\* replaces the target; count += 1.
MigrateReplace ==
    /\ migration.st = "validated"
    /\ LET r == Head(migration.todo)
       IN /\ attestable_dir' =
               [attestable_dir EXCEPT ![r].paths =
                    Dump(AttestablePathsV1(migration.validated.paths))]
          /\ migration' = [migration EXCEPT !.st = "loop", !.todo = Tail(@),
                                            !.count = @ + 1,
                                            !.created = @ \cup {r}]
    /\ UNCHANGED <<writer, heap, walk, check>>
    /\ UNCHANGED <<mvars, svars, avars, xvars>>

\* Line 142: "return count".
MigrateReturn ==
    /\ migration.st = "loop"
    /\ migration.todo = <<>>
    /\ migration' = [migration EXCEPT !.st = "returned",
                                      !.returns = Append(@, migration.count)]
    /\ UNCHANGED <<attestable_dir, writer, heap, walk, check>>
    /\ UNCHANGED <<mvars, svars, avars, xvars>>

----------------------------------------------------------------------------
(* paths_to_hashes_and_sizes, atr/attestable.py lines 145-156.  walk.todo  *)
(* holds the relative paths util.paths_recursive has still to yield, in    *)
(* the order of the directory listing; walk.opened the files that have     *)
(* been opened for hashing.                                                *)

\* The files a tree can hold: those of Paths and one with a backslash in its
\* name under the directory.
WalkPaths == Paths \cup {<<1, NumNames>>}

Trees ==
    UNION {[S -> [data : Data]] :
              S \in {T \in SUBSET WalkPaths : T # {} /\ ValidTree(T, {})}}

\* The orders in which the files of S can be listed.
Orders(S) ==
    {q \in [1..Cardinality(S) -> S] : \A i, j \in DOMAIN q : q[i] = q[j] => i = j}

IdleWalk ==
    [st |-> "idle", tree |-> <<>>, todo |-> <<>>, opened |-> {},
     path_to_hash |-> <<>>, path_to_size |-> <<>>,
     result |-> [some |-> FALSE, path_to_hash |-> <<>>, path_to_size |-> <<>>]]

\* Lines 145-148: the call, with two empty maps, on any tree.
WalkCall ==
    /\ walk.st = "idle"
    /\ \E tree \in Trees :
       \E listing \in Orders(DOMAIN tree) :
         walk' = [IdleWalk EXCEPT !.st = "loop", !.tree = tree, !.todo = listing]
    /\ UNCHANGED <<attestable_dir, writer, migration, heap, check>>
    /\ UNCHANGED <<mvars, svars, avars, xvars>>

\* Lines 148-155, the body of the loop for the next path: ValueError for a
\* backslash, else the file is hashed and its size taken.
WalkPath ==
    /\ walk.st = "loop"
    /\ walk.todo # <<>>
    /\ LET rel_path == Head(walk.todo)
       IN walk' = IF HasBackslash(rel_path)
                  THEN [walk EXCEPT !.st = "raised"]
                  ELSE [walk EXCEPT
                           !.todo = Tail(@),
                           !.opened = @ \cup {rel_path},
                           !.path_to_hash =
                               Put(@, rel_path, compute_file_hash(walk.tree[rel_path])),
                           !.path_to_size =
                               Put(@, rel_path, SizeOf(walk.tree[rel_path].data))]
    /\ UNCHANGED <<attestable_dir, writer, migration, heap, check>>
    /\ UNCHANGED <<mvars, svars, avars, xvars>>

\* Line 156: "return path_to_hash, path_to_size".
WalkReturn ==
    /\ walk.st = "loop"
    /\ walk.todo = <<>>
    /\ walk' = [walk EXCEPT !.st = "returned",
                            !.result = [some |-> TRUE,
                                        path_to_hash |-> walk.path_to_hash,
                                        path_to_size |-> walk.path_to_size]]
    /\ UNCHANGED <<attestable_dir, writer, migration, heap, check>>
    /\ UNCHANGED <<mvars, svars, avars, xvars>>

----------------------------------------------------------------------------
(* Archive iteration, atr/tarzip.py.  The members of an archive are known  *)
(* by their position; a member is the flag isdev() of its TarInfo (a zip   *)
(* member is never a device).  iter is the generator that __iter__ makes:  *)
(* pos counts the members read from the archive, yielded lists the         *)
(* positions of the members it has yielded.                                *)

ArchiveKinds == {"tar", "zip"}

MemberLists(kind) ==
    UNION {[1..n -> IF kind = "tar" THEN BOOLEAN ELSE {FALSE}] : n \in 0..MaxMembers}

\* The values given for max_members: negative, zero, below, at and above the
\* number of members.
Caps == (0 - 1)..(MaxMembers + 1)

\* open_archive, lines 190-220: the ArchiveContext of an archive that opens.
ArchiveContext(kind, members, max_members) ==
    [kind |-> kind, members |-> members, max_members |-> max_members]

\* The test of lines 122 and 131 raising at the cap itself.
over_limit_at_cap(count, max_members) == count >= max_members

\* "if count > self._max_members", lines 122 and 131.
over_limit(count, max_members) == count > max_members

\* ArchiveContext.__iter__, lines 112-135: the generator runs from where it
\* stands to its next yield, to the raise, or to the end of the archive.
RECURSIVE Resume(_, _)
Resume(a, it) ==
    IF it.pos = Len(a.members)
    THEN [it EXCEPT !.st = "exhausted"]
    ELSE LET enforce_limit == a.max_members > 0
             read == [it EXCEPT !.pos = @ + 1]
         IN IF a.kind = "tar" /\ a.members[read.pos]
            THEN Resume(a, read)   \* "if member_orig.isdev(): continue"
            ELSE LET counted == IF enforce_limit
                                THEN [read EXCEPT !.count = @ + 1]
                                ELSE read
                 IN IF enforce_limit /\ over_limit(counted.count, a.max_members)
                    THEN [counted EXCEPT !.st = "raised"]
                    ELSE [counted EXCEPT !.st = "suspended",
                                         !.yielded = Append(@, read.pos)]

\* "with tarzip.open_archive(path, max_members) as archive": the archive opens
\* and iter(archive) makes the generator, which has not run yet.
OpenArchive ==
    /\ archive = NoArchive
    /\ \E kind \in ArchiveKinds, max_members \in Caps :
       \E members \in MemberLists(kind) :
         archive' = ArchiveContext(kind, members, max_members)
    /\ iter' = [NoIter EXCEPT !.st = "open"]
    /\ UNCHANGED <<first, classified, creation, yvars>>
    /\ UNCHANGED <<mvars, svars, avars>>

\* One iteration step, next() on the generator.
NextMember ==
    /\ iter.st \in {"open", "suspended"}
    /\ iter' = Resume(archive, iter)
    /\ UNCHANGED <<first, archive, classified, creation, yvars>>
    /\ UNCHANGED <<mvars, svars, avars>>

----------------------------------------------------------------------------
(* The archive checks, atr/tasks/checks/targz.py and zipformat.py.  A      *)
(* check opens the archive with tarzip.open_archive and its default        *)
(* max_members, the cap, and iterates it with ArchiveContext.__iter__      *)
(* (Resume above).  roots[i] is the first component of the name of member  *)
(* i: 1 is a root the check expects, 2 is another name.  A result is the   *)
(* status and the message given to the recorder, or the dict the core      *)
(* logic of zipformat returns.                                             *)

CheckFns ==
    {"targz.integrity", "targz.structure",
     "zipformat._integrity_check_core_logic", "zipformat._structure_check_core_logic"}

RootNames == 1..2

\* The caps the checks run with: tarzip.MAX_ARCHIVE_MEMBERS, a positive number.
CheckCaps == 1..MaxMembers

IdleCheck ==
    [st |-> "idle", fn |-> "none", archive |-> NoArchive, roots |-> <<>>,
     messages |-> <<>>, returned |-> <<>>]

Result(status, message) == [status |-> status, message |-> message]

\* The iteration of the whole archive, as sum(1 for _ in archive) and
\* list(archive) run it: to the end or to the raise.
RECURSIVE Drain(_, _)
Drain(a, it) ==
    IF it.st \in {"exhausted", "raised"} THEN it ELSE Drain(a, Resume(a, it))

\* archives.total_size: it opens the archive with tarzip.open_archive and reads
\* every member; the error of the iteration leaves it.
total_size(a) ==
    IF Drain(a, [NoIter EXCEPT !.st = "open"]).st = "raised"
    THEN "ArchiveMemberLimitExceededError"
    ELSE "ok"

\* targz.root_directory, lines 60-93: the loop over the members from the
\* generator it, with the root found so far (None: not yet).
RECURSIVE root_directory(_, _, _, _)
root_directory(a, roots, it, root) ==
    LET nx == Resume(a, it)
    IN IF nx.st = "raised"
       THEN [raised |-> "ArchiveMemberLimitExceededError", root |-> None]
       ELSE IF nx.st = "exhausted"
       THEN IF root = None
            THEN [raised |-> "RootDirectoryError", root |-> None]
            ELSE [raised |-> "none", root |-> root]
       ELSE IF root = None
       THEN root_directory(a, roots, nx, roots[nx.pos])
       ELSE IF roots[nx.pos] # root
       THEN [raised |-> "RootDirectoryError", root |-> None]
       ELSE root_directory(a, roots, nx, root)

\* targz.integrity, lines 39-57, from the try statement: the results recorded.
targz_integrity(a) ==
    IF total_size(a) = "ok"
    THEN <<Result("success", "Able to read all entries of the archive using tarfile")>>
    ELSE <<Result("failure", "Archive has too many members")>>

\* targz.structure, lines 96-162, from the try statement (a root named
\* "package" is not among the roots of the model): the results recorded.
targz_structure(a, roots) ==
    LET r == root_directory(a, roots, [NoIter EXCEPT !.st = "open"], None)
    IN IF r.raised = "ArchiveMemberLimitExceededError"
       THEN <<Result("failure", "Archive has too many members")>>
       ELSE IF r.raised = "RootDirectoryError"
       THEN <<Result("failure", "Could not get the root directory of the archive")>>
       ELSE IF r.root = 1
       THEN <<Result("success", "Archive contains exactly one root directory matching an expected name")>>
       ELSE <<Result("failure", "Root directory does not match expected names")>>

\* zipformat._integrity_check_core_logic, lines 77-91: the dict returned.
_integrity_check_core_logic(a) ==
    LET it == Drain(a, [NoIter EXCEPT !.st = "open"])
    IN IF it.st = "raised"
       THEN [error |-> "Archive has too many members"]
       ELSE [member_count |-> Len(it.yielded)]

\* zipformat._structure_check_core_logic, lines 94-131: the dict returned.
_structure_check_core_logic(a, roots) ==
    LET it == Drain(a, [NoIter EXCEPT !.st = "open"])
        root_dirs == {roots[it.yielded[i]] : i \in DOMAIN it.yielded}
    IN IF it.st = "raised"
       THEN [error |-> "Archive has too many members"]
       ELSE IF it.yielded = <<>>
       THEN [error |-> "Archive is empty"]
       ELSE IF Cardinality(root_dirs) > 1
       THEN [error |-> "Multiple root directories found"]
       ELSE IF root_dirs # {1}
       THEN [warning |-> "Root directory mismatch"]
       ELSE [root_dir |-> 1]

\* A check function is called on an archive and runs to its end.
CallCheck ==
    /\ check.st = "idle"
    /\ \E fn \in CheckFns, max_members \in CheckCaps :
       \E kind \in (IF fn \in {"targz.integrity", "targz.structure"}
                    THEN {"tar"} ELSE {"zip"}) :
       \E members \in MemberLists(kind) :
       \E roots \in [DOMAIN members -> RootNames] :
         LET a == ArchiveContext(kind, members, max_members)
         IN check' =
              [st |-> "returned", fn |-> fn, archive |-> a, roots |-> roots,
               messages |-> IF fn = "targz.integrity" THEN targz_integrity(a)
                            ELSE IF fn = "targz.structure" THEN targz_structure(a, roots)
                            ELSE <<>>,
               returned |-> IF fn = "zipformat._integrity_check_core_logic"
                            THEN _integrity_check_core_logic(a)
                            ELSE IF fn = "zipformat._structure_check_core_logic"
                            THEN _structure_check_core_logic(a, roots)
                            ELSE <<>>]
    /\ UNCHANGED <<attestable_dir, writer, migration, heap, walk>>
    /\ UNCHANGED <<mvars, svars, avars, xvars>>

----------------------------------------------------------------------------
(* File classification, atr/classify.py.  The arguments of a call are      *)
(* known by what classify asks of them: whether path.name and path.suffix  *)
(* are in the disallowed sets, what re.search of the extension pattern     *)
(* finds (no match, or a match with its groups "metadata" and "artifact"   *)
(* set or not), whether the path ends with a standalone metadata suffix,   *)
(* whether base_path is given, and source_matcher: None, or its answer for *)
(* str(base_path / path).                                                  *)

NoMatch == [found |-> FALSE, metadata |-> FALSE, artifact |-> FALSE]

Searches == {NoMatch} \cup [found : {TRUE}, metadata : BOOLEAN, artifact : BOOLEAN]

ClassifyArgs ==
    [name_disallowed : BOOLEAN, suffix_disallowed : BOOLEAN, search : Searches,
     standalone : BOOLEAN, base_path : BOOLEAN,
     source_matcher : {"none", "accepts", "rejects"}]

\* classify testing the metadata patterns before the disallowed sets.
classify_metadata_first(a) ==
    IF a.search.found /\ a.search.metadata THEN "METADATA"
    ELSE IF a.standalone THEN "METADATA"
    ELSE IF a.name_disallowed \/ a.suffix_disallowed THEN "DISALLOWED"
    ELSE IF a.search.found /\ a.search.artifact /\ a.source_matcher # "none" /\ a.base_path
            /\ a.source_matcher = "accepts"
         THEN "SOURCE"
    ELSE "BINARY"

\* classify, lines 33-54.
classify(a) ==
    IF a.name_disallowed \/ a.suffix_disallowed THEN "DISALLOWED"
    ELSE IF a.search.found /\ a.search.metadata THEN "METADATA"
    ELSE IF a.standalone THEN "METADATA"
    ELSE IF a.search.found /\ a.search.artifact /\ a.source_matcher # "none" /\ a.base_path
            /\ a.source_matcher = "accepts"
         THEN "SOURCE"
    ELSE "BINARY"

\* One call of classify.
Classify ==
    /\ classified = NoClassify
    /\ \E a \in ClassifyArgs :
         classified' = [st |-> "returned", args |-> a, result |-> classify(a)]
    /\ UNCHANGED <<first, archive, iter, creation, yvars>>
    /\ UNCHANGED <<mvars, svars, avars>>

----------------------------------------------------------------------------
(* Revision creation, the create_revision flow that calls the store and    *)
(* the merge.  creation.tmp is the temporary working directory (NoMap: it  *)
(* does not exist), stale says that a revision was completed since the     *)
(* parent, so that a merge is needed; manifest and committed say that the  *)
(* manifest was written and the revision committed; error is the exception *)
(* that left create_revision.                                              *)

\* The failure path leaving the working directory behind.
Fail_keep_tmp(c, e) == [c EXCEPT !.st = "failed", !.error = e]

\* The failure path: the working directory is removed, the error propagates.
Fail(c, e) == [c EXCEPT !.st = "failed", !.tmp = NoMap, !.error = e]

\* The working directory is made: empty, or a hard-link clone of the parent.
CreateBegin ==
    /\ creation = NoCreation
    /\ \E tree \in PathMaps, stale \in BOOLEAN :
         creation' = [st |-> "modify", tmp |-> SomeMap(tree), stale |-> stale,
                      wrote |-> FALSE, manifest |-> FALSE, committed |-> FALSE,
                      error |-> "none"]
    /\ UNCHANGED <<first, archive, iter, classified, yvars>>
    /\ UNCHANGED <<mvars, svars, avars>>

\* The caller's modify(path, old_rev) writes into the working directory and
\* returns, or raises after what it wrote.
CreateModify ==
    /\ creation.st = "modify"
    /\ \E tree \in PathMaps, raises \in BOOLEAN :
         LET w == [creation EXCEPT !.tmp = SomeMap(tree),
                                   !.wrote = (tree # creation.tmp.map)]
         IN creation' = IF raises THEN Fail(w, "FailedError")
                        ELSE [w EXCEPT !.st = "hash"]
    /\ UNCHANGED <<first, archive, iter, classified, yvars>>
    /\ UNCHANGED <<mvars, svars, avars>>

\* attestable.paths_to_hashes_and_sizes on the working directory: ValueError
\* for a path with a backslash.
CreateHash ==
    /\ creation.st = "hash"
    /\ creation' = IF \E p \in DOMAIN creation.tmp.map : HasBackslash(p)
                   THEN Fail(creation, "ValueError")
                   ELSE [creation EXCEPT !.st = IF creation.stale THEN "merge"
                                                ELSE "write"]
    /\ UNCHANGED <<first, archive, iter, classified, yvars>>
    /\ UNCHANGED <<mvars, svars, avars>>

\* merge.merge folds the prior revision into the working directory, or fails
\* with an OSError part of the way.
CreateMerge ==
    /\ creation.st = "merge"
    /\ \E tree \in PathMaps, raises \in BOOLEAN :
         LET m == [creation EXCEPT !.tmp = SomeMap(tree)]
         IN creation' = IF raises THEN Fail(m, "OSError")
                        ELSE [m EXCEPT !.st = "write"]
    /\ UNCHANGED <<first, archive, iter, classified, yvars>>
    /\ UNCHANGED <<mvars, svars, avars>>

\* attestable.write_files_data writes the manifest of the new revision.
CreateWrite ==
    /\ creation.st = "write"
    /\ creation' = [creation EXCEPT !.st = "commit", !.manifest = TRUE]
    /\ UNCHANGED <<first, archive, iter, classified, yvars>>
    /\ UNCHANGED <<mvars, svars, avars>>

\* The working directory is renamed to the revision's directory and the
\* revision is committed.
CreateCommit ==
    /\ creation.st = "commit"
    /\ creation' = [creation EXCEPT !.st = "done", !.tmp = NoMap, !.committed = TRUE]
    /\ UNCHANGED <<first, archive, iter, classified, yvars>>
    /\ UNCHANGED <<mvars, svars, avars>>

----------------------------------------------------------------------------
(* Specifications *)

\* One merge call.
Init == InitMerge /\ StoreIdle /\ AttrIdle /\ ExtraIdle

Next == MergeStep \/ MergeRaise

Spec == Init /\ [][Next]_vars

\* One merge call in which operating-system calls can fail.
NextFault == MergeStep \/ MergeRaise \/ MergeFault

SpecFault == Init /\ [][NextFault]_vars

\* Two merge calls, one after the other, on the same arguments and directories.
NextTwice == MergeStep \/ MergeRaise \/ SecondRun

SpecTwice == Init /\ [][NextTwice]_vars

\* A merge call, and a second one on the same inputs taking the paths in any
\* order.
NextPermuted == MergeStep \/ MergeRaise \/ SecondRun \/ MergeStepPermuted

SpecPermuted == Init /\ [][NextPermuted]_vars

\* A merge call and then a second one on the result of the first.
NextAgain == MergeStep \/ MergeRaise \/ Rerun

SpecAgain == Init /\ [][NextAgain]_vars

\* What is idle beside the directory of a (project, version).
DirIdle ==
    /\ MergeIdle /\ StoreIdle /\ AttrIdle
    /\ first = NoRun /\ archive = NoArchive /\ iter = NoIter
    /\ classified = NoClassify /\ creation = NoCreation
    /\ heap = NoHeap /\ walk = NoWalk /\ check = NoCheck
    /\ writer = IdleWriter /\ migration = IdleMigration

\* write_files_data calls for new revisions and migrate_to_paths_files calls on
\* a directory that had manifests only, their steps interleaved.
InitDir == DirIdle /\ attestable_dir \in LegacyDirs

NextDir ==
    \/ DirWriteManifest \/ DirWriteProjection
    \/ MigrateStart \/ MigrateRead \/ MigrateReplace \/ MigrateReturn

SpecDir == InitDir /\ [][NextDir]_vars

\* migrate_to_paths_files called twice on a directory with any files.
InitMigrate == DirIdle /\ attestable_dir \in AnyDirs

NextMigrate == MigrateStart \/ MigrateRead \/ MigrateReplace \/ MigrateReturn

SpecMigrate == InitMigrate /\ [][NextMigrate]_vars

\* The manifests of successive revisions computed as objects, each from the
\* one before.
InitHeap ==
    /\ MergeIdle /\ StoreIdle /\ AttrIdle
    /\ first = NoRun /\ archive = NoArchive /\ iter = NoIter
    /\ classified = NoClassify /\ creation = NoCreation
    /\ attestable_dir = NoDir /\ writer = NoWriter /\ migration = NoMigration
    /\ walk = NoWalk /\ check = NoCheck
    /\ heap = IdleHeap

NextHeap == GenerateOnHeap

SpecHeap == InitHeap /\ [][NextHeap]_vars

\* One paths_to_hashes_and_sizes call on any tree, listed in any order.
InitWalk ==
    /\ MergeIdle /\ StoreIdle /\ AttrIdle
    /\ first = NoRun /\ archive = NoArchive /\ iter = NoIter
    /\ classified = NoClassify /\ creation = NoCreation
    /\ attestable_dir = NoDir /\ writer = NoWriter /\ migration = NoMigration
    /\ heap = NoHeap /\ check = NoCheck
    /\ walk = IdleWalk

NextWalk == WalkCall \/ WalkPath \/ WalkReturn

SpecWalk == InitWalk /\ [][NextWalk]_vars

\* One call of a check function on any archive.
InitCheck ==
    /\ MergeIdle /\ StoreIdle /\ AttrIdle
    /\ first = NoRun /\ archive = NoArchive /\ iter = NoIter
    /\ classified = NoClassify /\ creation = NoCreation
    /\ attestable_dir = NoDir /\ writer = NoWriter /\ migration = NoMigration
    /\ heap = NoHeap /\ walk = NoWalk
    /\ check = IdleCheck

NextCheck == CallCheck

SpecCheck == InitCheck /\ [][NextCheck]_vars

\* An archive is opened and iterated to its end or to the error.
InitIdle == MergeIdle /\ StoreIdle /\ AttrIdle /\ ExtraIdle

NextArchive == OpenArchive \/ NextMember

SpecArchive == InitIdle /\ [][NextArchive]_vars

\* One classify call on any path.
NextClassify == Classify

SpecClassify == InitIdle /\ [][NextClassify]_vars

\* One create_revision call.
NextCreation ==
    \/ CreateBegin \/ CreateModify \/ CreateHash
    \/ CreateMerge \/ CreateWrite \/ CreateCommit

SpecCreation == InitIdle /\ [][NextCreation]_vars

\* One write_files_data call, the write_checks_data calls of the check tasks and
\* a reader, all on one revision.
InitStoreSpec == InitStore /\ MergeIdle /\ AttrIdle /\ ExtraIdle

NextStore ==
    \/ WriteManifestTemp \/ RenameManifest
    \/ WriteProjectionTemp \/ RenameProjection
    \/ TestChecksExists \/ OpenChecks \/ WriteChecks
    \/ \E t \in Tasks : ReadChecks(t) \/ ModifyChecks(t) \/ RenameChecks(t)
    \/ ReaderOpen

SpecStore == InitStoreSpec /\ [][NextStore]_vars

\* The readers applied to the files of a revision, whatever the files hold.
NextRead == CallLoad \/ CallLoadPaths \/ CallLoadChecks

SpecRead == InitRead /\ [][NextRead]_vars

\* write_files_data calls on one (project, version), their arguments free.
InitAttr == AttrIdle /\ MergeIdle /\ StoreIdle /\ ExtraIdle

NextAttr == WriteFilesData \/ RepeatWrite

SpecAttr == InitAttr /\ [][NextAttr]_vars

\* The successive revisions of one (project, version), each manifest computed
\* from the one loaded for the revision before, and files damaged on disk.
NextChain == CreateRevision \/ DamageManifest

SpecChain == InitAttr /\ [][NextChain]_vars

----------------------------------------------------------------------------
(* Properties of merge.  The presence of a path, the type conflict and the *)
(* hash of prior's file are restated here from the inputs of the call.     *)

InBase(p) == p \in DOMAIN base_inodes
InPrior(p) == p \in DOMAIN prior_dir
InNew(p) == p \in DOMAIN n_inodes

\* p is an implicit directory of the new tree, or lies under a file of it.
TypeConflict(p) ==
    \/ \E r \in DOMAIN n_inodes : p \in Prefixes(r)
    \/ \E d \in Prefixes(p) : d \in DOMAIN n_inodes

\* Prior's hash of p: the projection's entry when the projection loads and has
\* one, else the hash of the bytes of prior's file.
HashFromPrior(p) ==
    IF paths_file.some /\ p \in DOMAIN paths_file.map
    THEN paths_file.map[p]
    ELSE HashOf(prior_dir[p].data)

\* temp_dir / p is a hard link to prior_dir / p, with prior's hash and size.
TakenFromPrior(p) ==
    /\ p \in DOMAIN temp_files
    /\ temp_files[p] = prior_dir[p]
    /\ p \in DOMAIN n_hashes /\ n_hashes[p] = HashFromPrior(p)
    /\ p \in DOMAIN n_sizes /\ n_sizes[p] = SizeOf(prior_dir[p].data)

\* p has no file in temp_dir and no entry in n_hashes and n_sizes.
Gone(p) ==
    p \notin DOMAIN temp_files /\ p \notin DOMAIN n_hashes /\ p \notin DOMAIN n_sizes

\* The file at p and its entries are what they were when merge was called.
AsAtStart(p) ==
    /\ (p \in DOMAIN temp_files) = (p \in DOMAIN start.tf)
    /\ (p \in DOMAIN temp_files => temp_files[p] = start.tf[p])
    /\ (p \in DOMAIN n_hashes) = (p \in DOMAIN start.nh)
    /\ (p \in DOMAIN n_hashes => n_hashes[p] = start.nh[p])
    /\ (p \in DOMAIN n_sizes) = (p \in DOMAIN start.ns)
    /\ (p \in DOMAIN n_sizes => n_sizes[p] = start.ns[p])

PriorOnly(p) == ~InBase(p) /\ InPrior(p) /\ ~InNew(p)

AdoptCase(p) ==
    /\ PriorOnly(p)
    /\ ~TypeConflict(p)
    /\ p \notin start.td

\* C1: after merge returns, every path that only prior has, that has no type
\* conflict with the new tree and is not a directory of temp_dir, is a hard link
\* to prior's file; n_hashes holds the projection's hash for it when the
\* projection loads and has the path, else the hash computed from the file, and
\* n_sizes holds the file's size.
C1_AdoptFromPrior ==
    pc = "done" => \A p \in Paths : AdoptCase(p) => TakenFromPrior(p)

\* An adopted path whose projection entry differs from the file's own hash, and
\* a second adopted path that the projection lacks.
C1_Witness ==
    /\ pc = "done"
    /\ \E p \in Paths :
         /\ AdoptCase(p) /\ TakenFromPrior(p)
         /\ paths_file.some /\ p \in DOMAIN paths_file.map
         /\ n_hashes[p] # HashOf(prior_dir[p].data)
         /\ \E r \in Paths \ {p} :
              /\ AdoptCase(r) /\ r \notin DOMAIN paths_file.map
              /\ Len(r) > 1

DeleteCase(p) == InBase(p) /\ ~InPrior(p) /\ InNew(p)

NewIsBase(p) ==
    \/ base_inodes[p] = n_inodes[p]
    \/ /\ p \in DOMAIN base_hashes /\ p \in DOMAIN start.nh
       /\ base_hashes[p] = start.nh[p]

AllPresent(p) == InBase(p) /\ InPrior(p) /\ InNew(p)

InodeReplaceCase(p) ==
    /\ AllPresent(p)
    /\ prior_inodes[p] # base_inodes[p]
    /\ prior_inodes[p] # n_inodes[p]
    /\ base_inodes[p] = n_inodes[p]

\* C3: after merge returns, a path all three have, whose prior inode differs
\* from base's and new's while base and new share an inode, is a hard link to
\* prior's file, with prior's hash in n_hashes and prior's size in n_sizes.
C3_PriorWinsViaInode ==
    pc = "done" => \A p \in Paths : InodeReplaceCase(p) => TakenFromPrior(p)

\* A replaced path whose file, hash and size all changed.
C3_Witness ==
    /\ pc = "done"
    /\ \E p \in Paths :
         /\ InodeReplaceCase(p) /\ TakenFromPrior(p)
         /\ temp_files[p] # start.tf[p]
         /\ n_hashes[p] # start.nh[p]
         /\ n_sizes[p] # start.ns[p]

DistinctInodes(p) ==
    /\ AllPresent(p)
    /\ base_inodes[p] # prior_inodes[p]
    /\ base_inodes[p] # n_inodes[p]
    /\ prior_inodes[p] # n_inodes[p]

HashReplaceCase(p) ==
    /\ DistinctInodes(p)
    /\ p \in DOMAIN base_hashes
    /\ base_hashes[p] = start.nh[p]
    /\ HashFromPrior(p) # base_hashes[p]

\* C4: after merge returns, a path all three have under pairwise different
\* inodes, with base's hash equal to new's hash and prior's hash different from
\* base's, is a hard link to prior's file, with prior's hash and size recorded.
C4_PriorWinsViaHash ==
    pc = "done" => \A p \in Paths : HashReplaceCase(p) => TakenFromPrior(p)

\* A replacement decided by the projection's hash although prior's file holds
\* the very content base and new hold.
C4_Witness ==
    /\ pc = "done"
    /\ \E p \in Paths :
         /\ HashReplaceCase(p) /\ TakenFromPrior(p)
         /\ temp_files[p].ino # start.tf[p].ino
         /\ HashOf(prior_dir[p].data) = base_hashes[p]

NoActionCase(p) ==
    /\ AllPresent(p)
    /\ \/ prior_inodes[p] = n_inodes[p]
       \/ base_inodes[p] = prior_inodes[p]
       \/ /\ DistinctInodes(p)
          /\ p \in DOMAIN base_hashes
          /\ \/ base_hashes[p] # start.nh[p]
             \/ HashFromPrior(p) = base_hashes[p]

\* C5: after merge returns, a path all three have is exactly as it was (file,
\* n_hashes entry, n_sizes entry) if prior and new share an inode, or base and
\* prior share an inode, or the inodes all differ and base's hash differs from
\* new's or prior's hash equals base's.
C5_NewWins ==
    pc = "done" => \A p \in Paths : NoActionCase(p) => AsAtStart(p)

\* New keeps a file that differs from prior's in inode and content, on equal
\* base and prior hashes.
C5_Witness ==
    /\ pc = "done"
    /\ \E p \in Paths :
         /\ NoActionCase(p) /\ AsAtStart(p)
         /\ DistinctInodes(p)
         /\ base_hashes[p] = start.nh[p]
         /\ temp_files[p].data # prior_dir[p].data

OtherCase(p) == ~PriorOnly(p) /\ ~DeleteCase(p) /\ ~AllPresent(p)

\* C6: the presence of a path in base, prior and new puts it in exactly one
\* case, and after merge returns every path outside the cases prior-only,
\* base-and-new and all-three has the regular file (or none) and the entries
\* (or none) it had at the call.
C6_OtherCasesUntouched ==
    /\ \A p \in Paths :
         Cardinality({k \in {"adopt", "delete", "all", "other"} :
             \/ k = "adopt" /\ PriorOnly(p)
             \/ k = "delete" /\ DeleteCase(p)
             \/ k = "all" /\ AllPresent(p)
             \/ k = "other" /\ OtherCase(p)}) = 1
    /\ pc = "done" => \A p \in Paths : OtherCase(p) => AsAtStart(p)

\* A path of base and prior that new removed stays removed while another path
\* is adopted from prior.
C6_Witness ==
    /\ pc = "done"
    /\ \E p \in Paths :
         /\ InBase(p) /\ InPrior(p) /\ ~InNew(p)
         /\ p \notin DOMAIN temp_files
         /\ \E r \in Paths \ {p} : AdoptCase(r) /\ TakenFromPrior(r)

ConflictCase(p) == PriorOnly(p) /\ TypeConflict(p)

C8_MapsMatchTempDir ==
    /\ pc = "loop" /\ todo = SortedPaths(all_paths) =>
           /\ DOMAIN n_inodes = DOMAIN temp_files
           /\ DOMAIN n_hashes = DOMAIN temp_files
           /\ DOMAIN n_sizes = DOMAIN temp_files
    /\ pc = "done" =>
           /\ DOMAIN n_hashes = DOMAIN temp_files
           /\ DOMAIN n_sizes = DOMAIN temp_files

\* Merge has returned after removing one file and adopting another.
C8_Witness ==
    /\ pc = "done"
    /\ \E p \in Paths : DeleteCase(p) /\ Gone(p)
    /\ \E r \in Paths : AdoptCase(r) /\ r \in DOMAIN temp_files
    /\ DOMAIN n_hashes = DOMAIN temp_files

----------------------------------------------------------------------------
(* Properties of the manifest store *)

C30_WriteFilesKeepsIdsOfOneCall ==
    w_pc = "done" =>
        \A t \in Tasks :
            (t_pc[t] = "done" /\ \A u \in Tasks \ {t} : t_pc[u] = "start") =>
                Range(t_checks[t]) \subseteq Range(load_checks)

\* C10: a reader running concurrently with write_files_data finds each of the
\* three files absent or complete, never partially written.
C10_ReaderSeesWholeFiles == seen.st \in {"absent", "complete"}

----------------------------------------------------------------------------
(* Properties of the attribution.  They are stated of the latest           *)
(* write_files_data call: its arguments, the previous manifest it was      *)
(* given and the manifest it produced.                                     *)

Written == call.st = "written"

\* The previous manifest's hashes and paths by hash; empty without a manifest.
PrevHashes == IF call.previous.some THEN call.previous.hashes ELSE <<>>
PrevPaths(h) ==
    IF call.previous.some
    THEN {p \in DOMAIN call.previous.paths : call.previous.paths[p] = h}
    ELSE {}
CurPaths(h) == {p \in DOMAIN call.path_to_hash : call.path_to_hash[p] = h}
CurHashes == {call.path_to_hash[p] : p \in DOMAIN call.path_to_hash}
CallPair == <<call.uploader_uid, call.revision_number>>

IsPrefix(a, b) == Len(a) <= Len(b) /\ SubSeq(b, 1, Len(a)) = a
NoDuplicates(q) == \A i, j \in DOMAIN q : q[i] = q[j] => i = j

\* C11: in the manifest a write_files_data call produces, and in every manifest
\* file on disk, each hash that is a value of paths is a key of hashes.
C11_PathHashesHaveEntries ==
    /\ Written =>
          /\ call.result.paths = call.path_to_hash
          /\ \A p \in DOMAIN call.result.paths :
                call.result.paths[p] \in DOMAIN call.result.hashes
    /\ \A r \in DOMAIN manifests :
          manifests[r].file.kind = "valid" =>
              \A p \in DOMAIN manifests[r].file.data.paths :
                  manifests[r].file.data.paths[p]
                      \in DOMAIN manifests[r].file.data.hashes

\* A manifest computed from a previous one: one of its hashes is new, and it
\* keeps the entry of a hash that no path carries any more.
C11_Witness ==
    /\ Written /\ call.previous.some
    /\ \E h \in CurHashes : h \notin DOMAIN PrevHashes
    /\ \E g \in DOMAIN call.result.hashes : g \notin CurHashes

\* The entry the attribution rule gives a current hash h.
RuleEntry(h, new) ==
    IF h \notin DOMAIN PrevHashes
    THEN /\ new.uploaders = <<CallPair>>
         /\ new.size \in {call.path_to_size[p] : p \in CurPaths(h)}
    ELSE IF Cardinality(CurPaths(h)) > Cardinality(PrevPaths(h))
    THEN /\ new.size = PrevHashes[h].size
         /\ new.uploaders = IF \E i \in DOMAIN PrevHashes[h].uploaders :
                                    PrevHashes[h].uploaders[i] = CallPair
                            THEN PrevHashes[h].uploaders
                            ELSE PrevHashes[h].uploaders \o <<CallPair>>
    ELSE new = PrevHashes[h]

\* C13: the hashes of the new manifest are those of the previous manifest and
\* of the current revision; an entry no current path maps to is the previous
\* one; a current hash that previous lacks gets the size of one of its current
\* paths and the single pair (uploader, revision); a current hash with
\* strictly more current than previous paths keeps its entry with the pair
\* appended unless present; any other current hash keeps its entry.
C13_AttributionRule ==
    Written =>
        /\ DOMAIN call.result.hashes = DOMAIN PrevHashes \cup CurHashes
        /\ \A h \in DOMAIN PrevHashes \ CurHashes :
              call.result.hashes[h] = PrevHashes[h]
        /\ \A h \in CurHashes : RuleEntry(h, call.result.hashes[h])

\* One call in which a hash gains a path and the pair, and another hash keeps
\* its number of paths and its entry.
C13_Witness ==
    /\ Written /\ call.previous.some
    /\ \E h \in CurHashes \cap DOMAIN PrevHashes :
         /\ Cardinality(CurPaths(h)) > Cardinality(PrevPaths(h))
         /\ Len(call.result.hashes[h].uploaders) = Len(PrevHashes[h].uploaders) + 1
    /\ \E g \in DOMAIN PrevHashes \ CurHashes : call.result.hashes[g] = PrevHashes[g]

\* C14: no uploaders list of a manifest, as produced or as on disk, holds the
\* same (uploader, revision) pair twice, also when a call is repeated with the
\* pair of the earlier call and that call's result as previous.
C14_NoDuplicatePair ==
    /\ Written =>
          \A h \in DOMAIN call.result.hashes :
              NoDuplicates(call.result.hashes[h].uploaders)
    /\ \A r \in DOMAIN manifests :
          manifests[r].file.kind = "valid" =>
              \A h \in DOMAIN manifests[r].file.data.hashes :
                  NoDuplicates(manifests[r].file.data.hashes[h].uploaders)

\* A repeated call, with more paths for a hash whose entry already holds the
\* call's pair.
C14_Witness ==
    /\ Written /\ call.previous.some
    /\ \E h \in CurHashes \cap DOMAIN PrevHashes :
         /\ Cardinality(CurPaths(h)) > Cardinality(PrevPaths(h))
         /\ \E i \in DOMAIN PrevHashes[h].uploaders :
              PrevHashes[h].uploaders[i] = CallPair
         /\ call.result.hashes[h] = PrevHashes[h]

\* The file carrying h has another name in this revision.
RenameOf(h) ==
    /\ h \in DOMAIN PrevHashes
    /\ PrevPaths(h) # {}
    /\ Cardinality(CurPaths(h)) = Cardinality(PrevPaths(h))
    /\ CurPaths(h) # PrevPaths(h)

\* The file carrying h is also at a further path in this revision.
CopyOf(h) ==
    /\ h \in DOMAIN PrevHashes
    /\ PrevPaths(h) # {}
    /\ PrevPaths(h) \subseteq CurPaths(h)
    /\ PrevPaths(h) # CurPaths(h)

\* C15 as claimed: a revision that renames the file of a recorded hash, or
\* copies it to a further path, leaves the hash's uploaders as they were.
C15_NoAttributionOnRenameOrCopy ==
    Written =>
        \A h \in Hashes :
            (RenameOf(h) \/ CopyOf(h)) =>
                call.result.hashes[h].uploaders = PrevHashes[h].uploaders

\* C15 amended: a revision that renames the file of a recorded hash leaves the
\* hash's uploaders as they were; one that copies the file to a further path
\* appends (uploader, revision) to them, once, unless the pair is there.
C15_NoAttributionOnRename ==
    Written =>
        \A h \in Hashes :
            /\ RenameOf(h) =>
                  call.result.hashes[h].uploaders = PrevHashes[h].uploaders
            /\ CopyOf(h) =>
                  call.result.hashes[h].uploaders =
                      IF \E i \in DOMAIN PrevHashes[h].uploaders :
                             PrevHashes[h].uploaders[i] = CallPair
                      THEN PrevHashes[h].uploaders
                      ELSE PrevHashes[h].uploaders \o <<CallPair>>

\* A new revision that renames the only file of a hash.
C15_Witness ==
    /\ Written
    /\ call.revision_number = 2
    /\ \E h \in Hashes :
         /\ RenameOf(h)
         /\ call.result.hashes[h].uploaders = PrevHashes[h].uploaders
         /\ CurHashes = {h}

\* The revisions from r1 to r2 each descend from the one before.
Chain(r1, r2) == \A r \in (r1 + 1)..r2 : manifests[r].from = r - 1

ValidPair(r1, r2) ==
    /\ r1 < r2
    /\ manifests[r1].file.kind = "valid"
    /\ manifests[r2].file.kind = "valid"

GrowsFrom(r1, r2) ==
    \A h \in DOMAIN manifests[r1].file.data.hashes
            \cap DOMAIN manifests[r2].file.data.hashes :
        IsPrefix(manifests[r1].file.data.hashes[h].uploaders,
                 manifests[r2].file.data.hashes[h].uploaders)

----------------------------------------------------------------------------
(* Properties of the checks index and of the readers *)

IsSorted(q) == \A i, j \in DOMAIN q : i < j => q[i] < q[j]

\* The index a write_checks_data call leaves when no other writer has changed
\* the file between the call's read and its rename.
WriteChecksResult(t) ==
    (/\ t_pc[t] = "modified" /\ t_pc'[t] = "done"
     /\ t_old[t].valid
     /\ checks_file.content = t_old[t])
    => /\ checks_file'.st = "complete"
       /\ checks_file'.content.valid
       /\ checks_file'.content.checks =
              sorted(Range(checks_file.content.checks) \cup Range(t_checks[t]))

\* C16: a write_checks_data call on an index holding the valid list E leaves
\* the ascending, duplicate-free list of the union of E and its ids; writing the
\* same ids twice, or two id lists in either order, gives the same index; every
\* index a write_checks_data call has persisted is sorted without duplicates.
C16_WriteChecksResult ==
    /\ [][\A t \in Tasks : WriteChecksResult(t)]_vars
    /\ [](\A t, u \in Tasks :
            /\ modify(modify(checks_file.content, t_checks[t]), t_checks[t])
                 = modify(checks_file.content, t_checks[t])
            /\ modify(modify(checks_file.content, t_checks[t]), t_checks[u])
                 = modify(modify(checks_file.content, t_checks[u]), t_checks[t]))
    /\ []((checks_file.st = "complete" /\ checks_file.content.valid)
            => IsSorted(checks_file.content.checks))

\* A call given its ids in descending order has written them onto an index
\* that held one of them.
C16_Witness ==
    \E t \in Tasks :
        /\ t_pc[t] = "done"
        /\ t_checks[t] = <<2, 1>>
        /\ t_old[t] = ChecksJson(<<2>>)
        /\ checks_file.by = "checks"
        /\ checks_file.content = ChecksJson(<<1, 2>>)

AbsentValue(fn) ==
    IF fn = "load" THEN NoManifest
    ELSE IF fn = "load_paths" THEN NoMap
    ELSE <<>>

FileRead(fn) ==
    IF fn = "load" THEN r_files.manifest
    ELSE IF fn = "load_paths" THEN r_files.paths
    ELSE r_files.checks

\* C18: load, load_paths and load_checks never raise; for a file that is
\* missing, is not valid JSON or fails validation, load and load_paths return
\* None and load_checks returns the empty list.
C18_ReadersNeverRaise ==
    r_result.fn # "none" =>
        /\ ~r_result.raised
        /\ FileRead(r_result.fn).kind # "valid"
             => r_result.value = AbsentValue(r_result.fn)

----------------------------------------------------------------------------
(* Properties of merge: the projection's loads and failing system calls *)

\* merge consults prior's hash for p: p is adopted or replaced, or its hashes
\* are compared and base's equals new's.
NeedsPriorHash(p) ==
    \/ AdoptCase(p)
    \/ InodeReplaceCase(p)
    \/ /\ DistinctInodes(p)
       /\ p \in DOMAIN base_hashes /\ p \in DOMAIN start.nh
       /\ base_hashes[p] = start.nh[p]

\* C19: one merge call loads the prior revision's projection at most once,
\* whatever the loader returns, and not at all when it has returned without a
\* path that needed prior's hash.
C19_ProjectionLoadedOnce ==
    /\ loads <= 1
    /\ (pc = "done" /\ \A p \in Paths : ~NeedsPriorHash(p)) => loads = 0

\* The maps and the tree that merge mutates.
Mutated == <<temp_files, temp_dirs, n_hashes, n_sizes>>

\* C20: an iteration either completes as it does when no system call fails, or
\* merge ends with the error at that path; after the error no path is processed
\* and temp_dir, n_hashes and n_sizes change no more.
C20_OsErrorAborts ==
    /\ [][(pc = "loop" /\ todo # <<>>) =>
             LET s == merge_path(Current, Head(todo))
             IN \/ /\ s.ok
                   /\ Mutated' = <<s.tf, s.td, s.nh, s.ns>>
                   /\ todo' = Tail(todo)
                \/ /\ pc' = "failed"
                   /\ todo' = todo]_vars
    /\ [][pc = "failed" => (pc' = "failed" /\ todo' = todo /\ Mutated' = Mutated)]_vars

\* merge has failed at a path whose file it had removed and could not link,
\* after adopting an earlier path; a later path is as it was.
C20_Witness ==
    /\ pc = "failed"
    /\ Len(todo) = 1
    /\ LET p == Head(todo)
       IN /\ InodeReplaceCase(p)
          /\ p \notin DOMAIN temp_files
          /\ p \in DOMAIN n_hashes
          /\ \E r \in Paths : AdoptCase(r) /\ TakenFromPrior(r)

----------------------------------------------------------------------------
(* Properties of merge on whole trees *)

\* C21: when a path of the base, the prior or the new tree holds a backslash,
\* merge does not return normally and processes no path: temp_dir, n_hashes
\* and n_sizes stay as they were at the call.
C21_BackslashRejected ==
    (\E p \in all_paths : HasBackslash(p)) =>
        /\ pc # "done"
        /\ todo = SortedPaths(all_paths)
        /\ Mutated = <<start.tf, start.td, start.nh, start.ns>>

\* The file at p and the entries of p are the same before and after a step.
SamePath(p) ==
    /\ Get(temp_files', p) = Get(temp_files, p)
    /\ Get(n_hashes', p) = Get(n_hashes, p)
    /\ Get(n_sizes', p) = Get(n_sizes, p)

\* C22: a second merge run on the arguments, directories and projection of the
\* first ends as the first did, with the same temp_dir, n_hashes and n_sizes;
\* and each iteration is for the least of the paths not yet processed, whose
\* file and entries are the only ones it changes.
C22_Deterministic ==
    /\ [](first.some /\ pc \in {"done", "failed"} =>
             /\ first.pc = pc
             /\ first.tf = temp_files /\ first.td = temp_dirs
             /\ first.nh = n_hashes /\ first.ns = n_sizes)
    /\ [][(pc = "loop" /\ todo' # todo /\ first' = first) =>
             /\ todo' = Tail(todo)
             /\ \A i \in DOMAIN todo' : PathLess(Head(todo), todo'[i])
             /\ \A q \in Paths \ {Head(todo)} : SamePath(q)]_vars

\* The second run has returned, as the first did, after removing the file of
\* one path and adopting another path from prior.
C22_Witness ==
    /\ first.some /\ pc = "done" /\ first.pc = "done"
    /\ first.tf = temp_files /\ first.nh = n_hashes
    /\ \E p \in Paths : DeleteCase(p) /\ Gone(p)
    /\ \E r \in Paths : AdoptCase(r) /\ TakenFromPrior(r)

\* Base and new record the same hash wherever they share an inode.
HashesConsistent ==
    \A p \in DOMAIN base_inodes \cap DOMAIN n_inodes :
        (base_inodes[p] = n_inodes[p] /\ p \in DOMAIN base_hashes /\ p \in DOMAIN start.nh)
            => base_hashes[p] = start.nh[p]

AddedByNew(p) == ~InBase(p) /\ InNew(p)
DeletedByNew(p) == InBase(p) /\ ~InNew(p)
ModifiedByNew(p) ==
    /\ InBase(p) /\ InNew(p)
    /\ p \in DOMAIN base_hashes /\ p \in DOMAIN start.nh
    /\ base_hashes[p] # start.nh[p]

NewChanged(p) == AddedByNew(p) \/ DeletedByNew(p) \/ ModifiedByNew(p)

\* C27: with hashes consistent with the inodes, a path that new added, deleted
\* or holds with a hash other than base's has, during and after merge, the
\* regular file (or none) and the n_hashes and n_sizes entries (or none) that
\* it had at the call, whatever prior holds at the path.
C27_NewChangesSurvive ==
    HashesConsistent => \A p \in Paths : NewChanged(p) => AsAtStart(p)

\* merge has returned: it kept new's content at a path where prior holds
\* another file than base, left deleted a path that prior still has, and
\* took another path from prior.
C27_Witness ==
    /\ pc = "done" /\ HashesConsistent
    /\ \E p \in Paths :
         /\ \/ /\ ModifiedByNew(p) /\ InPrior(p)
               /\ prior_inodes[p] # base_inodes[p]
               /\ prior_dir[p].data # temp_files[p].data
            \/ DeletedByNew(p) /\ InPrior(p) /\ prior_inodes[p] # base_inodes[p]
         /\ AsAtStart(p)
         /\ \E r \in Paths \ {p} : AdoptCase(r) /\ TakenFromPrior(r)

\* New is base: the same paths, each with base's inode or base's hash.
NewUnchanged ==
    /\ DOMAIN n_inodes = DOMAIN base_inodes
    /\ \A p \in DOMAIN n_inodes :
         \/ base_inodes[p] = n_inodes[p]
         \/ /\ p \in DOMAIN base_hashes /\ p \in DOMAIN start.nh
            /\ base_hashes[p] = start.nh[p]

\* The projection, when it loads, has the hash of the content of every file
\* of prior.
PriorRecordedTruly ==
    paths_file.some =>
        \A p \in DOMAIN prior_dir :
            p \in DOMAIN paths_file.map /\ paths_file.map[p] = HashOf(prior_dir[p].data)

\* base_hashes has the hash of the content of a file that base shares with
\* prior or with new.
BaseRecordedTruly ==
    /\ HashesConsistent
    /\ \A p \in DOMAIN base_inodes \cap DOMAIN prior_dir :
         (base_inodes[p] = prior_inodes[p] /\ p \in DOMAIN base_hashes)
             => base_hashes[p] = HashOf(prior_dir[p].data)

NoEmptyDirectory == start.td = n_dirs

\* temp_dir has prior's files with prior's contents, n_hashes their hashes.
EqualsPrior ==
    /\ DOMAIN temp_files = DOMAIN prior_dir
    /\ DOMAIN n_hashes = DOMAIN prior_dir
    /\ \A p \in DOMAIN prior_dir :
         /\ temp_files[p].data = prior_dir[p].data
         /\ n_hashes[p] = HashOf(prior_dir[p].data)

\* C28: when new is base (same paths, each with base's inode or hash), then
\* after merge returns the regular files of temp_dir, their contents and
\* n_hashes are those of prior, whatever prior changed, a file replaced by a
\* directory of its name or a directory by a file included.
C28_UnchangedNewYieldsPrior ==
    (pc = "done" /\ NewUnchanged /\ BaseRecordedTruly /\ PriorRecordedTruly
        /\ NoEmptyDirectory) => EqualsPrior

\* C28 without the replacement of a file by a directory or of a directory by
\* a file: no path of prior is a directory of new or lies under a file of new.
C28_UnchangedNewYieldsPriorSameTypes ==
    (\A p \in DOMAIN prior_dir : ~TypeConflict(p)) => C28_UnchangedNewYieldsPrior

\* C29: the iteration of merge for a path that only prior has and at which
\* temp_dir holds a directory, be it an empty one that no file of new implies,
\* raises nothing, links nothing, adds no entry to n_hashes or n_sizes and
\* leaves the directory in place; the path has no entry when merge returns.
C29_DirectorySkipped ==
    /\ [][(pc = "loop" /\ todo # <<>> /\ PriorOnly(Head(todo))
              /\ Head(todo) \in temp_dirs) =>
             /\ pc' # "failed"
             /\ todo' = Tail(todo)
             /\ Mutated' = Mutated]_vars
    /\ [](pc = "done" =>
             \A p \in Paths : (PriorOnly(p) /\ p \in start.td) =>
                 Gone(p) /\ p \in temp_dirs)

\* merge has returned after skipping a path of prior at which temp_dir has an
\* empty directory, and adopting another path from prior.
C29_Witness ==
    /\ pc = "done"
    /\ \E p \in Paths :
         /\ PriorOnly(p) /\ p \in start.td /\ p \notin n_dirs
         /\ Gone(p) /\ p \in temp_dirs
         /\ \E r \in Paths \ {p} : AdoptCase(r) /\ TakenFromPrior(r)

\* At the call n_hashes and n_sizes had the hash and the size of the content of
\* every file of temp_dir.
StartRecordedTruly ==
    \A p \in DOMAIN start.tf :
        /\ p \in DOMAIN start.nh /\ start.nh[p] = HashOf(start.tf[p].data)
        /\ p \in DOMAIN start.ns /\ start.ns[p] = SizeOf(start.tf[p].data)

\* C31: when n_hashes and n_sizes were accurate for every file of new at the
\* call and the projection, if it loads, has the true hash of every file of
\* prior, then after merge returns n_hashes[p] is the hash and n_sizes[p] the
\* size of the content of temp_dir / p for every regular file p of temp_dir.
C31_HashesAndSizesAccurate ==
    (pc = "done" /\ StartRecordedTruly /\ PriorRecordedTruly) =>
        \A p \in DOMAIN temp_files :
            /\ p \in DOMAIN n_hashes /\ n_hashes[p] = HashOf(temp_files[p].data)
            /\ p \in DOMAIN n_sizes /\ n_sizes[p] = SizeOf(temp_files[p].data)

\* merge has returned with a file replaced by prior's file of another content
\* and another size, its hash taken from the projection, and a file adopted.
C31_Witness ==
    /\ pc = "done" /\ StartRecordedTruly /\ PriorRecordedTruly
    /\ paths_file.some /\ loads = 1
    /\ \E p \in Paths :
         /\ InodeReplaceCase(p) /\ TakenFromPrior(p)
         /\ temp_files[p].data # start.tf[p].data
         /\ n_sizes[p] # start.ns[p]
         /\ \E r \in Paths \ {p} : AdoptCase(r) /\ TakenFromPrior(r)

\* temp_dir, n_hashes and n_sizes are as the first merge call left them.
AsFirstLeft == Mutated = <<first.tf, first.td, first.nh, first.ns>>

\* C32: a second merge call on the result of the first (same base and prior,
\* n_inodes scanned from the merged temp_dir, the n_hashes and n_sizes of the
\* first call) raises nothing and changes neither temp_dir nor n_hashes nor
\* n_sizes.
C32_Idempotent == first.some => (pc # "failed" /\ AsFirstLeft)

\* C32 for a first call in which no path of prior is a directory of new or
\* lies under a file of new.
C32_IdempotentSameTypes ==
    (first.some /\ \A p \in DOMAIN prior_dir :
                     \A r \in DOMAIN first.tf \cup DOMAIN base_inodes :
                         p \notin Prefixes(r) /\ r \notin Prefixes(p))
        => (pc # "failed" /\ AsFirstLeft)

C33_OrderIndependentOnFailure ==
    (first.some /\ first.pc = "failed" /\ pc \in {"done", "failed"}) =>
        (pc = "failed" /\ AsFirstLeft)

DeletionByInode(p) == DeleteCase(p) /\ base_inodes[p] = n_inodes[p]

DecidedByInode(p) == DeletionByInode(p) \/ (AllPresent(p) /\ ~DistinctInodes(p))

\* C34: the iteration for a path whose case is decided by inode equality raises
\* no exception, whether or not base_hashes and n_hashes contain the path; when
\* base and new share the inode and prior lacks the path, it removes the file
\* and the path's entries of n_hashes and n_sizes.
C34_InodeIdentitySuffices ==
    [][(pc = "loop" /\ todo # <<>> /\ DecidedByInode(Head(todo))) =>
           /\ pc' # "failed"
           /\ DeletionByInode(Head(todo)) =>
                  /\ Head(todo) \notin DOMAIN temp_files'
                  /\ Head(todo) \notin DOMAIN n_hashes'
                  /\ Head(todo) \notin DOMAIN n_sizes']_vars

\* C34 for the paths that base_hashes and n_hashes contain.
C34_InodeIdentitySufficesWithHashes ==
    [][(pc = "loop" /\ todo # <<>> /\ DecidedByInode(Head(todo))
          /\ Head(todo) \in DOMAIN base_hashes /\ Head(todo) \in DOMAIN n_hashes) =>
           /\ pc' # "failed"
           /\ DeletionByInode(Head(todo)) =>
                  /\ Head(todo) \notin DOMAIN temp_files'
                  /\ Head(todo) \notin DOMAIN n_hashes'
                  /\ Head(todo) \notin DOMAIN n_sizes']_vars

\* C34 for the paths that all three trees have.
C34_NoKeyErrorAllPresent ==
    [][(pc = "loop" /\ todo # <<>> /\ AllPresent(Head(todo))
          /\ ~DistinctInodes(Head(todo))) => pc' # "failed"]_vars

----------------------------------------------------------------------------
(* Properties of the attribution on objects *)

\* C36: after a manifest has been computed, the previous manifest has the paths
\* and, for every hash, the size and the uploaders list that it had before the
\* call, also when a pair was appended to the entry of the hash in the new
\* manifest.
C36_PreviousNotMutated ==
    heap.st = "returned" => Deref(heap.previous, heap.lists) = heap.before

\* The objects compute what _generate_files_data computes on values.
C36_ObjectsAgreeWithValues ==
    heap.st = "returned" =>
        \E sample_path \in SamplePaths(heap.result.paths) :
        \E path_to_size \in SizeMaps(heap.result.paths, TRUE) :
        \E uploader_uid \in Uploaders :
            Deref(heap.result, heap.lists) =
                _generate_files_data(heap.result.paths, path_to_size, heap.n,
                                     uploader_uid, heap.before, sample_path)

\* The new manifest has a pair more than the previous one for a hash, in a
\* list of its own.
C36_Witness ==
    /\ heap.st = "returned" /\ heap.previous.some
    /\ \E h \in DOMAIN heap.previous.hashes :
         /\ h \in DOMAIN heap.result.hashes
         /\ heap.result.hashes[h].uploaders # heap.previous.hashes[h].uploaders
         /\ Len(heap.lists[heap.result.hashes[h].uploaders])
              = Len(heap.before.hashes[h].uploaders) + 1
         /\ Len(heap.before.hashes[h].uploaders) >= 1

----------------------------------------------------------------------------
(* Properties of the archive checks *)

TooManyMembers == "Archive has too many members"

\* The check has reported that the archive has too many members: a failure
\* recorded with that message, or the dict with that error.
ReportedTooMany ==
    IF check.fn \in {"targz.integrity", "targz.structure"}
    THEN \E i \in DOMAIN check.messages :
             check.messages[i] = Result("failure", TooManyMembers)
    ELSE /\ "error" \in DOMAIN check.returned
         /\ check.returned.error = TooManyMembers

\* C39: a check called on an archive with more members than the cap returns
\* normally and reports that the archive has too many members: targz.integrity
\* and targz.structure record a failure with that message, the core logic of
\* zipformat's integrity and structure returns that error.
C39_MemberLimitReported ==
    (check.st # "idle" /\ Len(check.archive.members) > check.archive.max_members) =>
        (check.st = "returned" /\ ReportedTooMany)

\* The members of the archive that are not devices, in order.
CheckedMembers ==
    SelectSeq([i \in DOMAIN check.archive.members |-> i],
              LAMBDA i : ~check.archive.members[i])

\* C39 for archives with more members that are not devices than the cap and,
\* for targz.structure, one root name over the first of them up to the cap.
C39_MemberLimitReportedWhenReached ==
    (/\ check.st # "idle"
     /\ Len(CheckedMembers) > check.archive.max_members
     /\ check.fn = "targz.structure" =>
            \A i \in 1..check.archive.max_members :
                check.roots[CheckedMembers[i]] = check.roots[CheckedMembers[1]])
        => (check.st = "returned" /\ ReportedTooMany)

----------------------------------------------------------------------------
(* Properties of paths_to_hashes_and_sizes *)

BackslashInTree == \E p \in DOMAIN walk.tree : HasBackslash(p)

\* C37: called on a tree that has a relative path with a backslash,
\* paths_to_hashes_and_sizes opens and hashes no file of the tree and returns
\* no maps: it ends with the ValueError.
C37_BackslashRejectedBeforeHashing ==
    (walk.st # "idle" /\ BackslashInTree) =>
        /\ walk.opened = {}
        /\ walk.st # "returned" /\ ~walk.result.some
        /\ walk.todo = <<>> => walk.st = "raised"

\* C37 of the file with the backslash alone: it is never opened, the call does
\* not go beyond it and returns no maps.
C37_BackslashPathNotHashed ==
    (walk.st # "idle" /\ BackslashInTree) =>
        /\ \A p \in walk.opened : ~HasBackslash(p)
        /\ walk.st # "returned" /\ ~walk.result.some
        /\ walk.st = "raised" => HasBackslash(Head(walk.todo))

----------------------------------------------------------------------------
(* Properties of the directory of a (project, version) *)

\* C35: at every point of write_files_data calls, each for a revision without
\* manifest, and migrate_to_paths_files calls, a revision whose projection file
\* exists has its full manifest, and the projection holds the paths mapping of
\* the manifest.
C35_ProjectionAgrees ==
    \A r \in Revs :
        attestable_dir[r].paths.kind # "missing" =>
            /\ attestable_dir[r].manifest.kind = "valid"
            /\ attestable_dir[r].paths.kind = "valid"
            /\ attestable_dir[r].paths.data.paths = attestable_dir[r].manifest.data.paths

\* A migration has made the projection of an old manifest with a path, and
\* made the one of a new revision between the two writes of write_files_data.
C35_Witness ==
    /\ writer.st = "manifest_done"
    /\ writer.rev \in migration.created
    /\ \E r \in migration.created \ {writer.rev} :
         /\ migration.before[r].manifest.kind = "valid"
         /\ attestable_dir[r].paths.kind = "valid"
         /\ attestable_dir[r].paths.data.paths # <<>>

\* The revisions that had a manifest that parses and no projection when the
\* first migrate_to_paths_files call began.
ToMigrate ==
    {r \in Revs : /\ migration.before[r].manifest.kind = "valid"
                  /\ migration.before[r].paths.kind = "missing"}

\* No full manifest and no projection that existed has changed since the first
\* call began.
NothingOverwritten ==
    \A r \in Revs :
        /\ attestable_dir[r].manifest = migration.before[r].manifest
        /\ migration.before[r].paths.kind # "missing" =>
               attestable_dir[r].paths = migration.before[r].paths

\* Every revision has the projection of its manifest if it was to be migrated,
\* else the projection file, or none, that it had.
AllMigrated ==
    \A r \in Revs :
        attestable_dir[r].paths =
            IF r \in ToMigrate
            THEN Dump(AttestablePathsV1(migration.before[r].manifest.data.paths))
            ELSE migration.before[r].paths

\* C38: migrate_to_paths_files passes over the manifests that do not parse and
\* does not end with an exception; it changes no full manifest and no existing
\* projection; when it returns, every revision that had a manifest that parses
\* and no projection has the projection of its manifest's paths, and the value
\* returned is the number of these; a second call then creates nothing and
\* returns 0.
C38_MigrationCreatesMissingProjections ==
    /\ migration.st # "raised"
    /\ migration.st # "idle" => NothingOverwritten
    /\ Len(migration.returns) >= 1 =>
           /\ AllMigrated
           /\ migration.returns[1] = Cardinality(ToMigrate)
    /\ Len(migration.returns) = 2 => migration.returns[2] = 0

\* C38 for directories whose manifests are text: none has bytes that do not
\* decode as UTF-8.
C38_MigrationOfDecodableManifests ==
    (migration.st # "idle"
        /\ \A r \in Revs : migration.before[r].manifest.kind # "bad_utf8")
            => C38_MigrationCreatesMissingProjections

----------------------------------------------------------------------------
(* Properties of the archive iteration *)

\* The positions 1..n in order.
Upto(n) == [i \in 1..n |-> i]

\* The members of the archive that are not device members of a tar archive.
NonDevices == {i \in DOMAIN archive.members : ~(archive.kind = "tar" /\ archive.members[i])}

\* C23: over an archive with more members than a positive max_members, the
\* iteration yields the first max_members members, one per step, and raises at
\* the step after them: it does not end without the error, and the error does
\* not come at open time or before max_members members were yielded.
C23_CapEnforcedMidIteration ==
    (archive.max_members > 0 /\ Len(archive.members) > archive.max_members) =>
        /\ iter.st # "exhausted"
        /\ IsPrefix(iter.yielded, Upto(archive.max_members))
        /\ (iter.st = "raised" => iter.yielded = Upto(archive.max_members))

\* C23 for the archives without device members: zip archives, and tar
\* archives of files, directories and links only.
C23_CapEnforcedWithoutDevices ==
    (NonDevices = DOMAIN archive.members) => C23_CapEnforcedMidIteration

\* The cap is off, or not below the number of members.
CapNotExceeded ==
    \/ archive.max_members <= 0
    \/ archive.max_members >= Len(archive.members)

\* C24 as claimed: when the cap is off or not exceeded the iteration never
\* raises and, at its end, has yielded every member.
C24_CapNeverFires ==
    (archive.kind # "none" /\ CapNotExceeded) =>
        /\ iter.st # "raised"
        /\ (iter.st = "exhausted" => iter.yielded = Upto(Len(archive.members)))

\* C24 as amended: when the cap is off or not exceeded the iteration never
\* raises and, at its end, has yielded in archive order every member but the
\* device members of a tar archive.
C24_CapNeverFiresDevicesSkipped ==
    (archive.kind # "none" /\ CapNotExceeded) =>
        /\ iter.st # "raised"
        /\ Range(iter.yielded) \subseteq NonDevices
        /\ IsSorted(iter.yielded)
        /\ (iter.st = "exhausted" => Range(iter.yielded) = NonDevices)

\* A tar archive of three members, the second a device, has been iterated to
\* its end under a cap of three.
C24_Witness ==
    /\ archive.kind = "tar" /\ archive.max_members = 3
    /\ archive.members = <<FALSE, TRUE, FALSE>>
    /\ iter.st = "exhausted" /\ iter.yielded = <<1, 3>>

----------------------------------------------------------------------------
(* Properties of the classification *)

IsDisallowed(a) == a.name_disallowed \/ a.suffix_disallowed
IsMetadata(a) == (a.search.found /\ a.search.metadata) \/ a.standalone
IsSource(a) ==
    /\ a.search.found /\ a.search.artifact
    /\ a.base_path /\ a.source_matcher = "accepts"

\* C25: classify returns DISALLOWED when the name or the suffix is disallowed,
\* whatever else matches; else METADATA when the metadata pattern or a
\* standalone suffix matches, whatever the source matcher says; else SOURCE
\* only when the artifact pattern matches, a matcher and a base path are given
\* and the matcher accepts; BINARY in every other case.
C25_ClassifyPrecedence ==
    classified.st = "returned" =>
        LET a == classified.args
            r == classified.result
        IN /\ (r = "DISALLOWED") = IsDisallowed(a)
           /\ (r = "METADATA") = (~IsDisallowed(a) /\ IsMetadata(a))
           /\ (r = "SOURCE") = (~IsDisallowed(a) /\ ~IsMetadata(a) /\ IsSource(a))
           /\ (r = "BINARY") = (~IsDisallowed(a) /\ ~IsMetadata(a) /\ ~IsSource(a))

\* A path with a disallowed suffix that also matches the metadata pattern and
\* that the source matcher accepts has been classified DISALLOWED.
C25_Witness ==
    /\ classified.st = "returned"
    /\ classified.args.suffix_disallowed /\ ~classified.args.name_disallowed
    /\ IsMetadata(classified.args) /\ IsSource(classified.args)
    /\ classified.result = "DISALLOWED"

----------------------------------------------------------------------------
(* Properties of the revision creation *)

====
